---------------------------- MODULE Spec2Model ----------------------------
(***************************************************************************)
(* A model of the lp Launchpad driver (src/src/lib.rs) and of the event    *)
(* loop and widget runtime built on it (src/src/main.rs).                  *)
(*                                                                         *)
(* Colours are records [cls, tag, p]: cls is "Simple" or "Complex", tag    *)
(* the enum variant and p the variant's payload bytes.  Commands are       *)
(* records whose field op names the variant.  Bytes are naturals 0..255.   *)
(***************************************************************************)
EXTENDS Integers, Sequences, FiniteSets, TLC

VARIABLES
    current,            \* Launchpad.current: Key -> Color
    send_buf,           \* Launchpad.send_buf
    complex_color_buf,  \* Launchpad.complex_color_buf
    device,             \* the colour each LED of the device shows
    last,               \* the last Device Session operation and its outcome
    repeated,           \* last repeats the successful full_update before it
    pc,                 \* position of the consumer thread
    queue,              \* the mpsc channel (Event Bus)
    event,              \* Ui.event of the tick in progress
    fb,                 \* the frame buffer
    wstate,             \* persistent widget state (the widgets' static DATA)
    obs                 \* what the widgets of the last tick saw and returned

vars == <<current, send_buf, complex_color_buf, device, last, repeated,
          pc, queue, event, fb, wstate, obs>>

sessionVars == <<current, send_buf, complex_color_buf, device, last, repeated>>
loopVars == <<pc, queue, event, fb, wstate, obs>>

---------------------------------------------------------------------------
(* Keys and coordinates: lib.rs 40-66                                      *)

U8(n) == n % 256

\* coords_to_key with the coordinates exchanged
coords_to_key_swapped(x, y) == U8(10 * x + y)

coords_to_key(x, y) == U8(10 * y + x)

key_to_coords(key) == <<key % 10, key \div 10>>

\* rect_succ with the end of a row tested one column early
rect_succ_short(c, x0, x1, y1) ==
    IF c[1] = x1 - 1
    THEN IF c[2] = y1 THEN <<>> ELSE <<x0, c[2] + 1>>
    ELSE <<c[1] + 1, c[2]>>

\* rect_succ ending the iteration one row early
rect_succ_row_early(c, x0, x1, y1) ==
    IF c[1] = x1
    THEN IF c[2] >= y1 - 1 THEN <<>> ELSE <<x0, c[2] + 1>>
    ELSE <<c[1] + 1, c[2]>>

\* The successor of (x, y) in rect's iterator, <<>> for None
rect_succ(c, x0, x1, y1) ==
    IF c[1] = x1
    THEN IF c[2] = y1 THEN <<>> ELSE <<x0, c[2] + 1>>
    ELSE <<c[1] + 1, c[2]>>

RECURSIVE rect_from(_, _, _, _)
rect_from(c, x0, x1, y1) ==
    IF c = <<>> THEN <<>>
    ELSE <<coords_to_key(c[1], c[2])>> \o rect_from(rect_succ(c, x0, x1, y1), x0, x1, y1)

\* rect(a, b): the keys of the rectangle as a sequence, in iteration order
rect(a, b) ==
    LET c0 == key_to_coords(a)
        c1 == key_to_coords(b)
    IN  rect_from(c0, c0[1], c1[1], c1[2])

Range(s) == {s[i] : i \in 1..Len(s)}

\* rect(11, 99), the keys connect inserts into current and main into fb
playable_keys == rect(11, 99)
Playable == Range(playable_keys)

---------------------------------------------------------------------------
(* Colours: lib.rs 70-110                                                  *)

Static(c) == [tag |-> "Static", p |-> <<c>>]
Flashing(c) == [tag |-> "Flashing", p |-> <<c>>]
Pulsing(c) == [tag |-> "Pulsing", p |-> <<c>>]
Flashing2(b, a) == [tag |-> "Flashing", p |-> <<b, a>>]
Rgb(r, g, b) == [tag |-> "Rgb", p |-> <<r, g, b>>]

Simple(sc) == [cls |-> "Simple", tag |-> sc.tag, p |-> sc.p]
Complex(cc) == [cls |-> "Complex", tag |-> cc.tag, p |-> cc.p]
Uncolor(c) == [tag |-> c.tag, p |-> c.p]

Off == Simple(Static(0))

---------------------------------------------------------------------------
(* Protocol Codec: Command::append_to_vec, lib.rs 159-258.                 *)
(* The result is [ok, buf]: ok is FALSE when an assert! fails (a panic),   *)
(* buf is what had been written to the buffer by then.                     *)

\* An Option is <<>> (None) or <<v>> (Some(v))
None == <<>>
Some(v) == <<v>>
IsSome(o) == Len(o) = 1

BoolByte(b) == IF b THEN 1 ELSE 0

\* F0 00 20 29 02 0D, the head of every device SysEx command
SysEx == <<240, 0, 32, 41, 2, 13>>
EndSysEx == <<247>>

Wrote(buf) == [ok |-> TRUE, buf |-> buf]
Panicked(buf) == [ok |-> FALSE, buf |-> buf]

\* key_asserts without assert_ne!(*key % 10, 0)
key_asserts_range_only(key) == key >= 11 /\ key <= 99

\* the three key assertions of KeyOn, KeyOff and SetColors
key_asserts(key) == key >= 11 /\ key <= 99 /\ key % 10 # 0

\* the length assertion with < for <=
colors_len_below(colors) == Len(colors) < 81

\* assert!(colors.len() <= 81)
colors_len_assert(colors) == Len(colors) <= 81

KeyOnStatus(color) ==
    CASE color.tag = "Static" -> 144
      [] color.tag = "Flashing" -> 145
      [] color.tag = "Pulsing" -> 146

ColorTag(color) ==
    CASE color.tag = "Static" -> 0
      [] color.tag = "Flashing" -> 1
      [] color.tag = "Pulsing" -> 2
      [] color.tag = "Rgb" -> 3

\* one iteration of the loop over the entries of SetColors
append_color(entry, buf) ==
    IF ~key_asserts(entry[1]) THEN Panicked(buf)
    ELSE Wrote(buf \o <<ColorTag(entry[2]), entry[1]>> \o entry[2].p)

\* the iterations for entries lo..hi in order, stopping at a failed assert
\* (the range is halved to keep the evaluation shallow)
RECURSIVE append_colors(_, _, _, _)
append_colors(colors, lo, hi, buf) ==
    IF lo > hi THEN Wrote(buf)
    ELSE IF lo = hi THEN append_color(colors[lo], buf)
    ELSE LET mid == (lo + hi) \div 2
             r == append_colors(colors, lo, mid, buf)
         IN  IF r.ok THEN append_colors(colors, mid + 1, hi, r.buf) ELSE r

\* the SetColors arm once the length assert has passed
append_set_colors(colors, buf) ==
    LET r == append_colors(colors, 1, Len(colors), buf \o SysEx \o <<3>>)
    IN  IF r.ok THEN Wrote(r.buf \o EndSysEx) ELSE r

TextColorBytes(c) ==
    IF c.tag = "Palette" THEN <<0>> \o c.p ELSE <<1>> \o c.p

\* append_scroll_text without assert!(color.is_some())
append_scroll_text_any_text(c, buf) ==
    LET b0 == buf \o SysEx \o <<7>>
        b1 == IF IsSome(c.loops) THEN b0 \o <<BoolByte(c.loops[1])>> ELSE b0
    IN  IF IsSome(c.speed) /\ ~IsSome(c.loops) THEN Panicked(b1)
        ELSE
        LET b2 == IF IsSome(c.speed) THEN b1 \o <<c.speed[1]>> ELSE b1
        IN  IF IsSome(c.color) /\ ~IsSome(c.speed) THEN Panicked(b2)
            ELSE
            LET b3 == IF IsSome(c.color) THEN b2 \o TextColorBytes(c.color[1]) ELSE b2
                b4 == IF IsSome(c.text) THEN b3 \o c.text[1] ELSE b3
            IN  Wrote(b4 \o EndSysEx)

append_scroll_text(c, buf) ==
    LET b0 == buf \o SysEx \o <<7>>
        b1 == IF IsSome(c.loops) THEN b0 \o <<BoolByte(c.loops[1])>> ELSE b0
    IN  IF IsSome(c.speed) /\ ~IsSome(c.loops) THEN Panicked(b1)
        ELSE
        LET b2 == IF IsSome(c.speed) THEN b1 \o <<c.speed[1]>> ELSE b1
        IN  IF IsSome(c.color) /\ ~IsSome(c.speed) THEN Panicked(b2)
            ELSE
            LET b3 == IF IsSome(c.color) THEN b2 \o TextColorBytes(c.color[1]) ELSE b2
            IN  IF IsSome(c.text) /\ ~IsSome(c.color) THEN Panicked(b3)
                ELSE
                LET b4 == IF IsSome(c.text) THEN b3 \o c.text[1] ELSE b3
                IN  Wrote(b4 \o EndSysEx)

LayoutByte(l) ==
    CASE l = "Session" -> 0
      [] l = "Drums" -> 4
      [] l = "Keys" -> 5
      [] l = "User" -> 6
      [] l = "Programmer" -> 127

append_to_vec(c, buf) ==
    CASE c.op = "GetVersions" -> Wrote(buf \o <<240, 126, 127, 6, 1, 247>>)
      [] c.op = "SetLayout" -> Wrote(buf \o SysEx \o <<0, LayoutByte(c.layout)>> \o EndSysEx)
      [] c.op = "GetLayout" -> Wrote(buf \o SysEx \o <<0>> \o EndSysEx)
      [] c.op = "SetProgrammerMode" ->
            Wrote(buf \o SysEx \o <<14, BoolByte(c.enabled)>> \o EndSysEx)
      [] c.op = "GetProgrammerMode" -> Wrote(buf \o SysEx \o <<14>> \o EndSysEx)
      [] c.op = "KeyOn" ->
            IF key_asserts(c.key)
            THEN Wrote(buf \o <<KeyOnStatus(c.color), c.key, c.color.p[1]>>)
            ELSE Panicked(buf)
      [] c.op = "KeyOff" ->
            IF key_asserts(c.key) THEN Wrote(buf \o <<144, c.key, 0>>) ELSE Panicked(buf)
      [] c.op = "SetColors" ->
            IF colors_len_assert(c.colors)
            THEN append_set_colors(c.colors, buf)
            ELSE Panicked(buf)
      [] c.op = "ScrollText" -> append_scroll_text(c, buf)
      [] c.op = "SetAwake" -> Wrote(buf \o SysEx \o <<9, BoolByte(c.awake)>> \o EndSysEx)
      [] c.op = "GetAwake" -> Wrote(buf \o SysEx \o <<9>> \o EndSysEx)
      [] c.op = "SetBrightness" -> Wrote(buf \o SysEx \o <<8, c.brightness>> \o EndSysEx)
      [] c.op = "GetBrightness" -> Wrote(buf \o SysEx \o <<8>> \o EndSysEx)
      [] c.op = "SetLedFeedback" ->
            Wrote(buf \o SysEx \o <<10, BoolByte(c.internal), BoolByte(c.external)>>
                      \o EndSysEx)
      [] c.op = "GetLedFeedback" -> Wrote(buf \o SysEx \o <<10>> \o EndSysEx)

\* Command constructors
GetVersions == [op |-> "GetVersions"]
SetLayout(l) == [op |-> "SetLayout", layout |-> l]
GetLayout == [op |-> "GetLayout"]
SetProgrammerMode(b) == [op |-> "SetProgrammerMode", enabled |-> b]
GetProgrammerMode == [op |-> "GetProgrammerMode"]
KeyOn(key, color) == [op |-> "KeyOn", key |-> key, color |-> color]
KeyOff(key) == [op |-> "KeyOff", key |-> key]
SetColors(colors) == [op |-> "SetColors", colors |-> colors]
ScrollText(loops, speed, color, text) ==
    [op |-> "ScrollText", loops |-> loops, speed |-> speed, color |-> color,
     text |-> text]
SetAwake(b) == [op |-> "SetAwake", awake |-> b]
GetAwake == [op |-> "GetAwake"]
SetBrightness(n) == [op |-> "SetBrightness", brightness |-> n]
GetBrightness == [op |-> "GetBrightness"]
SetLedFeedback(i, e) == [op |-> "SetLedFeedback", internal |-> i, external |-> e]
GetLedFeedback == [op |-> "GetLedFeedback"]

Palette(p) == [tag |-> "Palette", p |-> <<p>>]
TextRgb(r, g, b) == [tag |-> "Rgb", p |-> <<r, g, b>>]

---------------------------------------------------------------------------
(* The device: what its LEDs show after receiving a message, by the wire   *)
(* layouts that append_to_vec writes (lib.rs 189-221).                     *)

TagName(t) ==
    CASE t = 0 -> "Static" [] t = 1 -> "Flashing" [] t = 2 -> "Pulsing" [] t = 3 -> "Rgb"

PayloadLen(t) == CASE t = 0 -> 1 [] t = 1 -> 2 [] t = 2 -> 1 [] t = 3 -> 3

\* the entries {tag key payload}* of a SetColors message, from byte i on
RECURSIVE WireEntries(_, _)
WireEntries(bytes, i) ==
    IF i >= Len(bytes) THEN <<>>
    ELSE <<<<bytes[i + 1],
             [tag |-> TagName(bytes[i]),
              p |-> SubSeq(bytes, i + 2, i + 1 + PayloadLen(bytes[i]))]>>>>
         \o WireEntries(bytes, i + 2 + PayloadLen(bytes[i]))

\* the last entry for key among the first n entries, 0 if there is none
RECURSIVE LastEntry(_, _, _)
LastEntry(entries, key, n) ==
    IF n = 0 THEN 0
    ELSE IF entries[n][1] = key THEN n
    ELSE LastEntry(entries, key, n - 1)

\* the entries applied in order: each LED shows the last colour given for it
ShowEntries(dev, entries) ==
    [key \in DOMAIN dev |->
        LET n == LastEntry(entries, key, Len(entries))
        IN  IF n = 0 THEN dev[key] ELSE Complex(entries[n][2])]

IsSetColorsWire(bytes) ==
    Len(bytes) >= 8 /\ SubSeq(bytes, 1, 6) = SysEx /\ bytes[7] = 3

DeviceReceive(dev, bytes) ==
    IF Len(bytes) = 3 /\ bytes[1] \in {144, 145, 146} /\ bytes[2] \in DOMAIN dev
    THEN [dev EXCEPT ![bytes[2]] =
             Simple([tag |-> TagName(bytes[1] - 144), p |-> <<bytes[3]>>])]
    ELSE IF IsSetColorsWire(bytes)
    THEN ShowEntries(dev, WireEntries(bytes, 8))
    ELSE dev

---------------------------------------------------------------------------
(* Device Session: struct Launchpad and impl Launchpad, lib.rs 8-14,       *)
(* 299-402.  A session value S is the struct's fields together with the    *)
(* device at the other end of out_con, the commands transmitted by the     *)
(* operation in progress (log), the number of transmissions the transport  *)
(* still accepts before it fails (link, negative: it never fails) and the  *)
(* operation's status: "Ok", "Err" (a ConnectionError was returned) or     *)
(* "Panic" (an assert! or unwrap failed).                                  *)

Running(S) == S.status = "Ok"

\* HashMap::get_mut(&key).unwrap() = value: a panic when the key is absent
SetCurrent(S, key, color) ==
    IF key \in DOMAIN S.current
    THEN [S EXCEPT !.current = [@ EXCEPT ![key] = color]]
    ELSE [S EXCEPT !.status = "Panic"]

\* the rest of Launchpad::_send once the command is encoded as enc
transmit(S, command, enc) ==
    IF ~enc.ok THEN [S EXCEPT !.send_buf = enc.buf, !.status = "Panic"]
    ELSE IF S.link = 0 THEN [S EXCEPT !.send_buf = enc.buf, !.status = "Err"]
    ELSE [S EXCEPT !.send_buf = enc.buf,
                   !.device = DeviceReceive(@, enc.buf),
                   !.log = Append(@, command),
                   !.link = IF @ > 0 THEN @ - 1 ELSE @]

\* Launchpad::_send: clear the buffer, encode, transmit
_send(S, command) == transmit(S, command, append_to_vec(command, <<>>))

\* the loop over the entries of SetColors in send, entries lo..hi in order
RECURSIVE track_colors(_, _, _, _)
track_colors(S, colors, lo, hi) ==
    IF lo > hi \/ ~Running(S) THEN S
    ELSE IF lo = hi THEN SetCurrent(S, colors[lo][1], Complex(colors[lo][2]))
    ELSE LET mid == (lo + hi) \div 2
         IN  track_colors(track_colors(S, colors, lo, mid), colors, mid + 1, hi)

\* track that also records a transmitted KeyOff as the key being off
track_key_off(S, command) ==
    IF command.op = "KeyOn" THEN SetCurrent(S, command.key, Simple(command.color))
    ELSE IF command.op = "KeyOff" THEN SetCurrent(S, command.key, Simple(Static(0)))
    ELSE IF command.op = "SetColors"
    THEN track_colors(S, command.colors, 1, Len(command.colors))
    ELSE S

\* the update of current that follows a successful _send in Launchpad::send
track(S, command) ==
    IF command.op = "KeyOn" THEN SetCurrent(S, command.key, Simple(command.color))
    ELSE IF command.op = "SetColors"
    THEN track_colors(S, command.colors, 1, Len(command.colors))
    ELSE S

\* the rest of Launchpad::send once _send returned the session T
sent_then_track(T, command) == IF Running(T) THEN track(T, command) ELSE T

\* Launchpad::send
send(S, command) ==
    IF ~Running(S) THEN S ELSE sent_then_track(_send(S, command), command)

\* commands[lo..hi], each passed to send in order, left at the first failure
RECURSIVE send_all(_, _, _, _)
send_all(S, commands, lo, hi) ==
    IF lo > hi \/ ~Running(S) THEN S
    ELSE IF lo = hi THEN send(S, commands[lo])
    ELSE LET mid == (lo + hi) \div 2
         IN  send_all(send_all(S, commands, lo, mid), commands, mid + 1, hi)

\* update_key that records the new colour of a simple key only
update_key_forgets(S, new, key) ==
    IF key \notin DOMAIN new \/ key \notin DOMAIN S.current
    THEN [S EXCEPT !.status = "Panic"]
    ELSE IF new[key] = S.current[key] THEN S
    ELSE IF new[key].cls = "Simple"
         THEN _send(SetCurrent(S, key, new[key]), KeyOn(key, Uncolor(new[key])))
         ELSE [S EXCEPT !.complex_color_buf = Append(@, <<key, Uncolor(new[key])>>)]

\* update_key that sends the commands of a changed key and records nothing
update_key_untracked(S, new, key) ==
    IF key \notin DOMAIN new \/ key \notin DOMAIN S.current
    THEN [S EXCEPT !.status = "Panic"]
    ELSE IF new[key] = S.current[key] THEN S
    ELSE IF new[key].cls = "Simple"
         THEN _send(S, KeyOn(key, Uncolor(new[key])))
         ELSE [S EXCEPT !.complex_color_buf = Append(@, <<key, Uncolor(new[key])>>)]

\* one iteration of full_update's loop, for key
update_key(S, new, key) ==
    IF key \notin DOMAIN new \/ key \notin DOMAIN S.current
    THEN [S EXCEPT !.status = "Panic"]
    ELSE IF new[key] = S.current[key] THEN S
    ELSE LET T == SetCurrent(S, key, new[key])
         IN  IF new[key].cls = "Simple"
             THEN _send(T, KeyOn(key, Uncolor(new[key])))
             ELSE [T EXCEPT !.complex_color_buf = Append(@, <<key, Uncolor(new[key])>>)]

\* the loop of full_update over keys[lo..hi] in order, left at the first error
RECURSIVE update_keys(_, _, _, _, _)
update_keys(S, new, keys, lo, hi) ==
    IF lo > hi \/ ~Running(S) THEN S
    ELSE IF lo = hi THEN update_key(S, new, keys[lo])
    ELSE LET mid == (lo + hi) \div 2
         IN  update_keys(update_keys(S, new, keys, lo, mid), new, keys, mid + 1, hi)

\* send_batch with one SetColors command for each accumulated entry
send_batch_each(S) ==
    send_all(S, [i \in 1..Len(S.complex_color_buf) |->
                    SetColors(<<S.complex_color_buf[i]>>)],
             1, Len(S.complex_color_buf))

\* the final batch of full_update
send_batch(S) ==
    IF ~Running(S) \/ S.complex_color_buf = <<>> THEN S
    ELSE _send(S, SetColors(S.complex_color_buf))

\* full_update that keeps what complex_color_buf held when it was called
full_update_keeps(S, new) ==
    IF ~Running(S) THEN S
    ELSE send_batch(update_keys(S, new, playable_keys, 1, Len(playable_keys)))

\* Launchpad::full_update
full_update(S, new) ==
    IF ~Running(S) THEN S
    ELSE send_batch(update_keys([S EXCEPT !.complex_color_buf = <<>>], new,
                                playable_keys, 1, Len(playable_keys)))

\* an animation: its steps in order, each step's commands passed to send
RECURSIVE run_steps(_, _, _)
run_steps(S, steps, i) ==
    IF i > Len(steps) \/ ~Running(S) THEN S
    ELSE run_steps(send_all(S, steps[i], 1, Len(steps[i])), steps, i + 1)

\* the session made of the state variables, about to run an operation over a
\* transport that accepts `link` more transmissions
NeverFails == 0 - 1
Session(link) ==
    [current |-> current, send_buf |-> send_buf,
     complex_color_buf |-> complex_color_buf, device |-> device,
     log |-> <<>>, link |-> link, status |-> "Ok"]

\* the fields of Launchpad after connect built them (lib.rs 326-336)
connect_current == [key \in Playable |-> Simple(Static(0))]

---------------------------------------------------------------------------
(* Animation Sequencer: mod animations, main.rs 75-429.  An animation is   *)
(* the sequence of its steps, a step the sequence of commands sent between *)
(* two sleeps.                                                             *)

TRANS_BLUE == 37
TRANS_PINK == 52
TRANS_WHITE == 3

RECURSIVE Flatten(_)
Flatten(ss) == IF ss = <<>> THEN <<>> ELSE Head(ss) \o Flatten(Tail(ss))

Reverse(s) == [i \in 1..Len(s) |-> s[Len(s) + 1 - i]]

\* Iterator::skip(1)
Skip1(s) == IF s = <<>> THEN <<>> ELSE Tail(s)

\* Iterator::take(n)
Take(s, n) == SubSeq(s, 1, IF n < Len(s) THEN n ELSE Len(s))

\* the i-th call of next() on a fused iterator over s
NextAt(s, i) == IF i <= Len(s) THEN Some(s[i]) ELSE None

RECURSIVE up_left_coords(_)
up_left_coords(c) ==
    <<coords_to_key(c[1], c[2])>>
    \o (IF c[1] = 1 \/ c[2] = 9 THEN <<>> ELSE up_left_coords(<<c[1] - 1, c[2] + 1>>))
up_left_from(start) == up_left_coords(key_to_coords(start))

RECURSIVE left_coords(_)
left_coords(c) ==
    <<coords_to_key(c[1], c[2])>>
    \o (IF c[1] = 1 THEN <<>> ELSE left_coords(<<c[1] - 1, c[2]>>))
left_from(start) == left_coords(key_to_coords(start))

RECURSIVE down_coords(_)
down_coords(c) ==
    <<coords_to_key(c[1], c[2])>>
    \o (IF c[2] = 1 THEN <<>> ELSE down_coords(<<c[1], c[2] - 1>>))
down_from(start) == down_coords(key_to_coords(start))

RECURSIVE right_coords(_)
right_coords(c) ==
    <<coords_to_key(c[1], c[2])>>
    \o (IF c[1] = 9 THEN <<>> ELSE right_coords(<<c[1] + 1, c[2]>>))
right_from(start) == right_coords(key_to_coords(start))

RECURSIVE up_coords(_)
up_coords(c) ==
    <<coords_to_key(c[1], c[2])>>
    \o (IF c[2] = 9 THEN <<>> ELSE up_coords(<<c[1], c[2] + 1>>))
up_from(start) == up_coords(key_to_coords(start))

\* (11..19).chain((19..=99).step_by(10))
along_bottom_right == [i \in 1..17 |-> IF i <= 8 THEN 10 + i ELSE 19 + 10 * (i - 9)]

\* for x in x0..=x1 { for y in y0..=y1 { coords_to_key(x, y) } }
xy_keys(x0, x1, y0, y1) ==
    IF x1 < x0 \/ y1 < y0 THEN <<>>
    ELSE LET h == y1 - y0 + 1
         IN  [i \in 1..((x1 - x0 + 1) * h) |->
                 coords_to_key(x0 + ((i - 1) \div h), y0 + ((i - 1) % h))]

\* the loop that clears the display at the head of shutdown and alert
clear_display == [i \in 1..81 |-> KeyOff(xy_keys(1, 9, 1, 9)[i])]

(* startup, main.rs 142-185 *)
STARTUP_STRIPES ==
    <<0, TRANS_BLUE, TRANS_BLUE, TRANS_PINK, TRANS_PINK, TRANS_WHITE, TRANS_WHITE,
      TRANS_PINK, TRANS_PINK, TRANS_BLUE, TRANS_BLUE>>

\* the queue of startup without the leading None items
startup_it_unpadded == [i \in 1..17 |-> Some(Reverse(along_bottom_right)[i])]

\* the queue `it` of startup: None STRIPES.len() - 1 times, then the starts
startup_it ==
    [i \in 1..(Len(STARTUP_STRIPES) - 1) |-> None]
    \o [i \in 1..17 |-> Some(Reverse(along_bottom_right)[i])]

\* one pass of the loop over the stripes, with `it` as the queue left
startup_pass(it) ==
    Flatten([j \in 1..Len(STARTUP_STRIPES) |->
        IF j <= Len(it) /\ IsSome(it[j])
        THEN LET d == up_left_from(it[j][1])
             IN  [n \in 1..Len(d) |-> KeyOn(d[n], Static(STARTUP_STRIPES[j]))]
        ELSE <<>>])

RECURSIVE startup_loop(_)
startup_loop(it) ==
    <<startup_pass(it)>> \o (IF it = <<>> THEN <<>> ELSE startup_loop(Tail(it)))

startup_steps == startup_loop(startup_it)

(* shutdown, main.rs 187-251 *)
SHUTDOWN_STRIPES == <<0, TRANS_BLUE, TRANS_PINK, TRANS_WHITE, TRANS_PINK, TRANS_BLUE>>

SHUTDOWN_SEEDS ==
    <<<<1, 99>>, <<2, 89>>, <<3, 79>>, <<4, 69>>, <<4, 59>>, <<3, 58>>, <<2, 57>>,
      <<1, 56>>, <<1, 55>>>>

shutdown_it ==
    Take([i \in 1..(Len(SHUTDOWN_STRIPES) - 1) |-> None]
         \o [i \in 1..Len(SHUTDOWN_SEEDS) |-> Some(SHUTDOWN_SEEDS[i])],
         9 + Len(SHUTDOWN_STRIPES) - 1)

\* a mirror image in place of the quarter turn: (10 - x, y)
rotate_mirror(c) == <<U8((0 - (c[1] - 5)) + 5), c[2]>>

\* ((-(y as i8 - 5) + 5) as u8, x)
rotate(c) == <<U8((0 - (c[2] - 5)) + 5), c[1]>>

\* a key and its three successive rotations
rotations(key) ==
    LET c0 == key_to_coords(key)
        c1 == rotate(c0)
        c2 == rotate(c1)
        c3 == rotate(c2)
    IN  <<key, coords_to_key(c1[1], c1[2]), coords_to_key(c2[1], c2[2]),
          coords_to_key(c3[1], c3[2])>>

shutdown_pass(it) ==
    Flatten([j \in 1..Len(SHUTDOWN_STRIPES) |->
        IF j <= Len(it) /\ IsSome(it[j])
        THEN LET d == Take(up_left_from(it[j][1][2]), it[j][1][1])
             IN  Flatten([n \in 1..Len(d) |->
                     [r \in 1..4 |-> KeyOn(rotations(d[n])[r],
                                          Static(SHUTDOWN_STRIPES[j]))]])
        ELSE <<>>])

RECURSIVE shutdown_loop(_)
shutdown_loop(it) ==
    <<shutdown_pass(it)>> \o (IF it = <<>> THEN <<>> ELSE shutdown_loop(Tail(it)))

shutdown_steps == <<clear_display>> \o shutdown_loop(shutdown_it)

(* alert, main.rs 255-428 *)
DEFAULT_FOCUS == 55

\* alert_nexts over iterators that still hold the focus itself (no skip(1))
alert_nexts_unskipped(focus, i) ==
    [u |-> NextAt(up_from(focus), i),
     d |-> NextAt(down_from(focus), i),
     l |-> NextAt(left_from(focus), i),
     r |-> NextAt(right_from(focus), i)]

\* what the four iterators return at the i-th iteration of a phase's loop
alert_nexts(focus, i) ==
    [u |-> NextAt(Skip1(up_from(focus)), i),
     d |-> NextAt(Skip1(down_from(focus)), i),
     l |-> NextAt(Skip1(left_from(focus)), i),
     r |-> NextAt(Skip1(right_from(focus)), i)]

AllNone(n) == ~IsSome(n.u) /\ ~IsSome(n.d) /\ ~IsSome(n.l) /\ ~IsSome(n.r)

\* phase 1, from iteration i on, with the bounds b reached so far
RECURSIVE alert_expand(_, _, _)
alert_expand(focus, i, b) ==
    LET n == alert_nexts(focus, i)
        nb == [top |-> IF IsSome(n.u) THEN key_to_coords(n.u[1])[2] ELSE b.top,
               bottom |-> IF IsSome(n.d) THEN key_to_coords(n.d[1])[2] ELSE b.bottom,
               left |-> IF IsSome(n.l) THEN key_to_coords(n.l[1])[1] ELSE b.left,
               right |-> IF IsSome(n.r) THEN key_to_coords(n.r[1])[1] ELSE b.right]
        cells == SelectSeq(xy_keys(nb.left, nb.right, nb.bottom, nb.top),
                           LAMBDA k : k # focus)
    IN  IF AllNone(n) THEN <<>>
        ELSE <<[c \in 1..Len(cells) |-> KeyOn(cells[c], Static(9))]>>
             \o alert_expand(focus, i + 1, nb)

\* the vector `bounds` pushed by the first loop of phase 3
RECURSIVE alert_bounds(_, _)
alert_bounds(focus, i) ==
    IF AllNone(alert_nexts(focus, i)) THEN <<>>
    ELSE <<alert_nexts(focus, i)>> \o alert_bounds(focus, i + 1)

row_off(k) == [x \in 1..9 |-> KeyOff(coords_to_key(x, key_to_coords(k)[2]))]
col_off(k) == [y \in 1..9 |-> KeyOff(coords_to_key(key_to_coords(k)[1], y))]

\* alert_contract_step that darkens the rows and leaves the columns
alert_contract_step_rows(n) ==
    (IF IsSome(n.u) THEN row_off(n.u[1]) ELSE <<>>)
    \o (IF IsSome(n.d) THEN row_off(n.d[1]) ELSE <<>>)

\* one iteration of the second loop of phase 3
alert_contract_step(n) ==
    (IF IsSome(n.u) THEN row_off(n.u[1]) ELSE <<>>)
    \o (IF IsSome(n.d) THEN row_off(n.d[1]) ELSE <<>>)
    \o (IF IsSome(n.l) THEN col_off(n.l[1]) ELSE <<>>)
    \o (IF IsSome(n.r) THEN col_off(n.r[1]) ELSE <<>>)

\* alert(launchpad, focus) for focus an Option<u8>
alert_phases(focus) ==
    LET f == IF IsSome(focus) THEN focus[1] ELSE DEFAULT_FOCUS
        c == key_to_coords(f)
        bounds == Reverse(alert_bounds(f, 1))
    IN  [clear |-> clear_display \o <<KeyOn(coords_to_key(c[1], c[2]), Pulsing(9))>>,
         expand |-> alert_expand(f, 1, [top |-> c[2], bottom |-> c[2],
                                        left |-> c[1], right |-> c[1]]),
         contract |-> [i \in 1..Len(bounds) |-> alert_contract_step(bounds[i])],
         cleanup |-> IF IsSome(focus) THEN <<>>
                     ELSE <<KeyOff(coords_to_key(c[1], c[2]))>>]

alert_steps(focus) ==
    LET ph == alert_phases(focus)
    IN  <<ph.clear>> \o ph.expand \o ph.contract \o <<ph.cleanup>>

---------------------------------------------------------------------------
(* Inputs of the Device Session operations                                 *)

\* operations since connect that the model follows
MaxOps == 2

\* the transport fails at the MaxFail-th transmission of an operation at the
\* latest, or never
MaxFail == 2
Links == {NeverFails} \cup 0..(MaxFail - 1)

Uniform(c) == [key \in Playable |-> c]

\* frames: dark; simple and complex cells; three complex cells; all complex;
\* all simple
DesiredMaps ==
    {Uniform(Off),
     [Uniform(Off) EXCEPT ![11] = Simple(Pulsing(9)), ![99] = Complex(Rgb(1, 2, 3))],
     [Uniform(Off) EXCEPT ![11] = Complex(Static(5)), ![55] = Complex(Flashing2(9, 0)),
                          ![99] = Complex(Rgb(1, 2, 3))],
     [Uniform(Off) EXCEPT ![11] = Simple(Static(5)), ![12] = Simple(Static(9))],
     Uniform(Complex(Flashing2(9, 0))),
     Uniform(Simple(Static(9)))}

SessionCommands ==
    {KeyOn(11, Static(5)), KeyOn(99, Flashing(3)), KeyOff(11), KeyOff(99),
     SetColors(<<<<11, Static(5)>>, <<55, Pulsing(9)>>>>),
     SetColors(<<>>), SetAwake(TRUE), GetBrightness, SetProgrammerMode(FALSE)}

Focuses == {None, Some(81)}

---------------------------------------------------------------------------
(* Animations on a session.  send and the animations read no LED state:    *)
(* what an animation does to a session is what it does to a blank one,     *)
(* laid over the session.  The runs over a blank session are evaluated     *)
(* once, for every transport in Links.                                     *)

Untouched == [cls |-> "None", tag |-> "Untouched", p |-> <<>>]

Blank(link) ==
    [current |-> [key \in Playable |-> Untouched], send_buf |-> <<>>,
     complex_color_buf |-> <<>>, device |-> [key \in Playable |-> Untouched],
     log |-> <<>>, link |-> link, status |-> "Ok"]

Overlay(base, over) ==
    [key \in DOMAIN base |-> IF over[key] = Untouched THEN base[key] ELSE over[key]]

startup_runs == [l \in Links |-> run_steps(Blank(l), startup_steps, 1)]
shutdown_runs == [l \in Links |-> run_steps(Blank(l), shutdown_steps, 1)]
alert_runs ==
    [f \in {None} \cup {Some(k) : k \in Playable} |->
        [l \in Links |-> run_steps(Blank(l), alert_steps(f), 1)]]

\* session S after the animation whose run over a blank session is R
Played(S, R) ==
    IF ~Running(S) THEN S
    ELSE [S EXCEPT !.current = Overlay(@, R.current),
                   !.device = Overlay(@, R.device),
                   !.send_buf = R.send_buf,
                   !.log = @ \o R.log,
                   !.link = R.link,
                   !.status = R.status]

\* animations::startup, animations::shutdown, animations::alert
startup(S) == Played(S, startup_runs[S.link])
shutdown(S) == Played(S, shutdown_runs[S.link])
alert(S, focus) == Played(S, alert_runs[focus][S.link])

---------------------------------------------------------------------------
(* The Device Session as a state machine: any caller, any order            *)

Done(S, op, arg) ==
    /\ current' = S.current
    /\ send_buf' = S.send_buf
    /\ complex_color_buf' = S.complex_color_buf
    /\ device' = S.device
    /\ last' = [op |-> op, arg |-> arg, status |-> S.status, log |-> S.log,
                n |-> last.n + 1, clean |-> last.clean /\ S.status = "Ok"]

Alive == last.status # "Panic" /\ last.n < MaxOps

Send(command, ok) ==
    /\ Alive
    /\ Done(send(Session(IF ok THEN NeverFails ELSE 0), command), "send", command)
    /\ repeated' = FALSE

FullUpdate(new, link) ==
    /\ Alive
    /\ Done(full_update(Session(link), new), "full_update", new)
    /\ repeated' = (last.op = "full_update" /\ last.status = "Ok" /\ last.arg = new)

Startup(link) ==
    /\ Alive
    /\ Done(startup(Session(link)), "startup", None)
    /\ repeated' = FALSE

Shutdown(link) ==
    /\ Alive
    /\ Done(shutdown(Session(link)), "shutdown", None)
    /\ repeated' = FALSE

Alert(focus, link) ==
    /\ Alive
    /\ Done(alert(Session(link), focus), "alert", focus)
    /\ repeated' = FALSE

\* Launchpad::connect has built the session and sent SetProgrammerMode(true)
SessionInit ==
    /\ current = connect_current
    /\ send_buf = append_to_vec(SetProgrammerMode(TRUE), <<>>).buf
    /\ complex_color_buf = <<>>
    /\ device = connect_current
    /\ last = [op |-> "connect", arg |-> None, status |-> "Ok",
               log |-> <<SetProgrammerMode(TRUE)>>, n |-> 0, clean |-> TRUE]
    /\ repeated = FALSE

LoopIdle ==
    /\ pc = "none"
    /\ queue = <<>>
    /\ event = None
    /\ fb = <<>>
    /\ wstate = <<>>
    /\ obs = <<>>

Init == SessionInit /\ LoopIdle

Next ==
    \/ \E c \in SessionCommands, ok \in BOOLEAN : Send(c, ok) /\ UNCHANGED loopVars
    \/ \E n \in DesiredMaps, l \in Links : FullUpdate(n, l) /\ UNCHANGED loopVars
    \/ \E l \in Links : Startup(l) /\ UNCHANGED loopVars
    \/ \E l \in Links : Shutdown(l) /\ UNCHANGED loopVars
    \/ \E f \in Focuses, l \in Links : Alert(f, l) /\ UNCHANGED loopVars

Spec == Init /\ [][Next]_vars

---------------------------------------------------------------------------
(* Properties of the Device Session                                        *)

IsColor(c) ==
    \/ c.cls = "Simple" /\ c.tag \in {"Static", "Flashing", "Pulsing"} /\ Len(c.p) = 1
    \/ c.cls = "Complex" /\ c.tag \in {"Static", "Pulsing"} /\ Len(c.p) = 1
    \/ c.cls = "Complex" /\ c.tag = "Flashing" /\ Len(c.p) = 2
    \/ c.cls = "Complex" /\ c.tag = "Rgb" /\ Len(c.p) = 3

NSetColors(log) == Cardinality({i \in 1..Len(log) : log[i].op = "SetColors"})

\* C1: after any sequence of operations that were all transmitted
\* successfully, the colour tracked for every playable key is the colour the
\* device was last commanded to show for it.
C1_TrackedIsShown ==
    last.clean => \A key \in Playable : current[key] = device[key]

\* C2: a full_update that follows a successful full_update of the same
\* desired map transmits no command (and so succeeds whatever the transport).
C2_ReconcileIdempotent ==
    (repeated /\ last.op = "full_update") => (last.log = <<>> /\ last.status = "Ok")

C2_Witness ==
    /\ repeated
    /\ last.op = "full_update"
    /\ last.arg[11] = Simple(Pulsing(9))
    /\ last.arg[99] = Complex(Rgb(1, 2, 3))

\* the SetColors commands a call handed to the transport: those transmitted
\* and the one, if any, whose transmission failed
NSetColorsIssued(log, status, buf) ==
    NSetColors(log) + (IF status = "Err" /\ IsSetColorsWire(buf) THEN 1 ELSE 0)

\* C3 (as stated): a full_update call issues exactly one SetColors command
\* if some key's desired colour is Complex and differs from the colour
\* tracked before the call, however many such keys there are, and no
\* SetColors command otherwise.
C3_OneSetColorsIssued ==
    [][(last'.op = "full_update" /\ last'.n = last.n + 1)
        => NSetColorsIssued(last'.log, last'.status, send_buf') =
              IF \E key \in Playable :
                    last'.arg[key].cls = "Complex" /\ last'.arg[key] # current[key]
              THEN 1 ELSE 0]_vars

\* a full_update left at the failed transmission of a KeyOn, the changed
\* complex key 99 never sent
C3_WitnessAborted ==
    /\ last.op = "full_update"
    /\ last.status = "Err"
    /\ last.log = <<>>
    /\ ~IsSetColorsWire(send_buf)
    /\ last.arg[99] = Complex(Rgb(1, 2, 3))
    /\ current[99] = Off

\* C3, for the calls that return Ok: a full_update whose transmissions
\* succeed transmits exactly one SetColors command if some key's desired
\* colour is Complex and differs from the colour tracked before the call,
\* however many such keys there are, and no SetColors command otherwise.
C3_OneSetColors ==
    [][(last'.op = "full_update" /\ last'.n = last.n + 1 /\ last'.status = "Ok")
        => NSetColors(last'.log) =
              IF \E key \in Playable :
                    last'.arg[key].cls = "Complex" /\ last'.arg[key] # current[key]
              THEN 1 ELSE 0]_vars

\* all 81 keys changed to a complex colour, in one command
C3_Witness ==
    /\ last.op = "full_update"
    /\ last.status = "Ok"
    /\ Len(last.log) = 1
    /\ last.log[1].op = "SetColors"
    /\ Len(last.log[1].colors) = 81

\* C4: the tracked-colour map always has exactly the 81 keys 10*y + x,
\* x, y in 1..9, as its domain, each mapped to one Color; right after connect
\* every one of them is Simple(Static(0)).
C4_TrackedDomain ==
    /\ DOMAIN current = {10 * y + x : x \in 1..9, y \in 1..9}
    /\ Cardinality(DOMAIN current) = 81
    /\ \A key \in DOMAIN current : IsColor(current[key])
    /\ last.op = "connect" => \A key \in DOMAIN current : current[key] = Off

C4_Witness ==
    /\ last.n = 2
    /\ last.op = "alert"
    /\ last.status = "Ok"
    /\ current[11] = Simple(Static(9))

---------------------------------------------------------------------------
(* The Protocol Codec through Launchpad::send: one command, of any shape   *)
(* the types admit, sent on a session that earlier sends have left in a    *)
(* known state.                                                            *)

\* Key is u8
U8s == 0..255

\* the session Launchpad::connect returns
ConnectSession ==
    [current |-> connect_current,
     send_buf |-> append_to_vec(SetProgrammerMode(TRUE), <<>>).buf,
     complex_color_buf |-> <<>>, device |-> connect_current,
     log |-> <<>>, link |-> NeverFails, status |-> "Ok"]

\* the sends made before the command under study
CodecStarts ==
    { <<>>,
      <<KeyOn(11, Static(5))>>,
      <<SetColors(<<<<99, Rgb(1, 2, 3)>>, <<12, Pulsing(7)>>>>)>> }

ComplexColors == {Static(5), Flashing2(1, 2), Pulsing(7), Rgb(1, 2, 3)}

\* every playable key once, in raster order
full_list == [i \in 1..Len(playable_keys) |-> <<playable_keys[i], Rgb(i, 0, 127)>>]

ColorLists ==
    { <<>>,
      <<<<99, Rgb(1, 2, 3)>>, <<11, Static(5)>>>>,
      <<<<11, Static(5)>>, <<11, Pulsing(7)>>>>,
      <<<<11, Static(5)>>, <<20, Static(5)>>>>,
      <<<<100, Static(5)>>, <<11, Static(5)>>>>,
      full_list,
      Reverse(full_list),
      SubSeq(full_list, 1, Len(full_list) - 1),
      [full_list EXCEPT ![Len(full_list)] = <<100, Static(5)>>],
      Append(full_list, <<11, Static(5)>>),
      Append(full_list, <<5, Static(5)>>),
      Append(Append(full_list, <<11, Static(5)>>), <<12, Static(5)>>) }
    \cup { <<<<key, color>>>> : key \in {0, 10, 11, 20, 55, 99, 100, 255},
                                color \in ComplexColors }

ScrollTexts ==
    { ScrollText(loops, speed, color, text) :
        loops \in {None, Some(TRUE), Some(FALSE)},
        speed \in {None, Some(7)},
        color \in {None, Some(Palette(5)), Some(TextRgb(1, 2, 3))},
        text \in {None, Some(<<72, 105>>)} }

OtherCommands ==
    { GetVersions, SetLayout("Programmer"), SetLayout("Session"), GetLayout,
      SetProgrammerMode(TRUE), SetProgrammerMode(FALSE), GetProgrammerMode,
      SetAwake(TRUE), SetAwake(FALSE), GetAwake, SetBrightness(127), GetBrightness,
      SetLedFeedback(TRUE, FALSE), GetLedFeedback }

CodecInit ==
    /\ \E pre \in CodecStarts :
          LET S == send_all(ConnectSession, pre, 1, Len(pre))
          IN  /\ current = S.current
              /\ send_buf = S.send_buf
              /\ complex_color_buf = S.complex_color_buf
              /\ device = S.device
              /\ last = [op |-> IF pre = <<>> THEN "connect" ELSE "send",
                         arg |-> IF pre = <<>> THEN None ELSE pre[Len(pre)],
                         status |-> S.status,
                         log |-> IF pre = <<>> THEN <<SetProgrammerMode(TRUE)>> ELSE S.log,
                         n |-> 0, clean |-> TRUE]
    /\ repeated = FALSE
    /\ LoopIdle

\* the command under study is the only one
CodecSend(command, ok) == last.n = 0 /\ Send(command, ok) /\ UNCHANGED loopVars

\* the key and colour-list commands sent, with any u8 as the key
CodecKeyOns ==
    { KeyOn(key, color) : key \in U8s, color \in {Static(5), Flashing(3), Pulsing(9)} }

CodecKeyOffs == { KeyOff(key) : key \in U8s }

CodecSetColors == { SetColors(colors) : colors \in ColorLists }

CodecNext ==
    \/ \E c \in CodecKeyOns, ok \in BOOLEAN : CodecSend(c, ok)
    \/ \E c \in CodecKeyOffs, ok \in BOOLEAN : CodecSend(c, ok)
    \/ \E c \in CodecSetColors, ok \in BOOLEAN : CodecSend(c, ok)
    \/ \E c \in ScrollTexts, ok \in BOOLEAN : CodecSend(c, ok)
    \/ \E c \in OtherCommands, ok \in BOOLEAN : CodecSend(c, ok)

CodecSpec == CodecInit /\ [][CodecNext]_vars

CommandKeys(c) ==
    IF c.op = "SetColors" THEN {c.colors[i][1] : i \in DOMAIN c.colors} ELSE {c.key}

\* C5: sending KeyOn, KeyOff or SetColors (of at most 81 entries) panics in
\* the encoder exactly when one of its keys is below 11, above 99 or a
\* multiple of 10; when it does, nothing is transmitted and the tracked
\* colours and the device are as before.
C5_KeyContract ==
    [][(/\ last'.n = last.n + 1
        /\ last'.op = "send"
        /\ last'.arg.op \in {"KeyOn", "KeyOff", "SetColors"}
        /\ last'.arg.op = "SetColors" => Len(last'.arg.colors) <= 81)
       => LET bad == \E key \in CommandKeys(last'.arg) :
                        key < 11 \/ key > 99 \/ key % 10 = 0
          IN  /\ (last'.status = "Panic") <=> bad
              /\ bad => /\ last'.log = <<>>
                        /\ current' = current
                        /\ device' = device]_vars

C5_Witness ==
    /\ last.op = "send"
    /\ last.arg = KeyOn(20, Static(5))
    /\ last.status = "Panic"
    /\ last.log = <<>>
    /\ current[11] = Simple(Static(5))

\* C6: sending SetColors with more than 81 entries panics before anything is
\* written or transmitted, leaving tracked colours and device as they were;
\* with 0..81 entries, all of valid keys, the encoder succeeds and the message
\* carries exactly the list's entries, in list order.
C6_BatchLength ==
    [][(last'.n = last.n + 1 /\ last'.op = "send" /\ last'.arg.op = "SetColors")
       => LET colors == last'.arg.colors
              valid == \A key \in CommandKeys(last'.arg) :
                          key >= 11 /\ key <= 99 /\ key % 10 # 0
          IN  /\ Len(colors) > 81 =>
                    /\ last'.status = "Panic"
                    /\ last'.log = <<>>
                    /\ send_buf' = <<>>
                    /\ current' = current
                    /\ device' = device
              /\ (Len(colors) <= 81 /\ valid) =>
                    /\ last'.status # "Panic"
                    /\ SubSeq(send_buf', 1, 7) = SysEx \o <<3>>
                    /\ WireEntries(send_buf', 8) = colors
                    /\ send_buf'[Len(send_buf')] = 247
                    /\ last'.status = "Ok" => last'.log = <<last'.arg>>]_vars

\* a full list of 81 entries, not in key order, was transmitted
C6_Witness ==
    /\ last.op = "send"
    /\ last.arg = SetColors(Reverse(full_list))
    /\ last.status = "Ok"
    /\ last.log = <<last.arg>>
    /\ device[11] = Complex(Rgb(1, 0, 127))

\* a list of 82 entries was refused
C6_WitnessTooLong ==
    /\ last.op = "send"
    /\ last.arg.op = "SetColors"
    /\ Len(last.arg.colors) = 82
    /\ last.status = "Panic"

\* C7: sending ScrollText passes the encoder if and only if speed is given
\* only with loops, color only with speed and text only with color; any
\* other combination panics and transmits nothing.
C7_ScrollTextPrefix ==
    (last.n = 1 /\ last.op = "send" /\ last.arg.op = "ScrollText")
    => LET c == last.arg
           prefix == /\ IsSome(c.speed) => IsSome(c.loops)
                     /\ IsSome(c.color) => IsSome(c.speed)
                     /\ IsSome(c.text) => IsSome(c.color)
       IN  /\ (last.status # "Panic") <=> prefix
           /\ last.status = "Panic" => last.log = <<>>
           /\ last.status = "Ok" => last.log = <<c>>

C7_Witness ==
    /\ last.op = "send"
    /\ last.arg = ScrollText(Some(TRUE), Some(7), None, Some(<<72, 105>>))
    /\ last.status = "Panic"

---------------------------------------------------------------------------
(* Widget Runtime: struct Ui and impl Ui, main.rs 752-1024.  A Ui value U   *)
(* holds the tick's event and frame buffer, the widgets' static DATA maps   *)
(* (one map, keyed by widget, key and call site: Location::caller() is the  *)
(* line of the outermost call), the session, the events sent on tx, the     *)
(* external commands run, and, as a record of the tick, every widget call   *)
(* with the event it saw and what it returned.                              *)

KeyDown(key) == [type |-> "KeyDown", key |-> key]
KeyUp(key) == [type |-> "KeyUp", key |-> key]
Brightness(b) == [type |-> "Brightness", b |-> b]
I3 == [type |-> "I3"]
MediaPlaying(p) == [type |-> "MediaPlaying", p |-> p]
Redraw == [type |-> "Redraw"]
Exit == [type |-> "Exit"]

\* Color::simple and Color::flashing, lib.rs 82-93
simple(c) == Simple(Static(c))
flashing(b, a) == Complex(Flashing2(b, a))

Going(U) == U.status = "Ok"

\* data.entry(id).or_insert(default)
Lookup(data, id, default) == IF id \in DOMAIN data THEN data[id] ELSE default
Store(data, id, v) == [x \in DOMAIN data \cup {id} |-> IF x = id THEN v ELSE data[x]]

\* *self.fb.get_mut(&key).unwrap() = color
SetFb(U, key, color) ==
    IF key \in DOMAIN U.fb
    THEN [U EXCEPT !.fb = [@ EXCEPT ![key] = color]]
    ELSE [U EXCEPT !.status = "Panic"]

\* the record of one widget call: what it was, what it saw, what it returned
Seen(U, call, ret) ==
    IF Going(U)
    THEN [U EXCEPT !.evals = Append(@, call @@ [ret |-> ret]), !.ret = ret]
    ELSE U

\* launchpad_for_side_effects.send(..).unwrap()
unwrapped(U, T) == [U EXCEPT !.S = T, !.status = IF Running(T) THEN "Ok" ELSE "Panic"]
SendUnwrap(U, command) == unwrapped(U, send(U.S, command))

\* an external command whose failure leaves the tick with `?`
External(U, what) ==
    IF U.extok THEN [U EXCEPT !.ext = Append(@, what)] ELSE [U EXCEPT !.status = "Err"]

\* the key state shared by impulse_, press_release_ and holdable_button
Pressed(ev, key, pressed) ==
    IF ev = KeyDown(key) THEN TRUE
    ELSE IF ev = KeyUp(key) THEN FALSE
    ELSE pressed

\* tabs that takes the release of a key of the strip for a press
tabs_on_release(U, LEN, start, site) ==
    IF ~Going(U) THEN U
    ELSE LET id == <<"tabs", start, site>>
             old == Lookup(U.data, id, 0)
             tab == IF /\ U.event.type \in {"KeyDown", "KeyUp"}
                       /\ U.event.key >= start
                       /\ U.event.key < U8(start + LEN)
                    THEN U8(U.event.key - start) ELSE old
             keys == [i \in 1..LEN |-> start + i - 1]
             lit == [key \in DOMAIN U.fb |->
                      IF key \in Range(keys)
                      THEN IF key - start = tab THEN simple(20) ELSE simple(1)
                      ELSE U.fb[key]]
         IN  IF Range(keys) \subseteq DOMAIN U.fb
             THEN Seen([U EXCEPT !.data = Store(@, id, tab), !.fb = lit],
                       [widget |-> "tabs", key |-> start, event |-> U.event, was |-> old],
                       tab)
             ELSE [U EXCEPT !.data = Store(@, id, tab), !.status = "Panic"]

tabs(U, LEN, start, site) ==
    IF ~Going(U) THEN U
    ELSE LET id == <<"tabs", start, site>>
             old == Lookup(U.data, id, 0)
             tab == IF /\ U.event.type = "KeyDown"
                       /\ U.event.key >= start
                       /\ U.event.key < U8(start + LEN)
                    THEN U8(U.event.key - start) ELSE old
             keys == [i \in 1..LEN |-> start + i - 1]
             lit == [key \in DOMAIN U.fb |->
                      IF key \in Range(keys)
                      THEN IF key - start = tab THEN simple(20) ELSE simple(1)
                      ELSE U.fb[key]]
         IN  IF Range(keys) \subseteq DOMAIN U.fb
             THEN Seen([U EXCEPT !.data = Store(@, id, tab), !.fb = lit],
                       [widget |-> "tabs", key |-> start, event |-> U.event, was |-> old],
                       tab)
             ELSE [U EXCEPT !.data = Store(@, id, tab), !.status = "Panic"]

static_color(U, key, color) ==
    IF ~Going(U) THEN U
    ELSE Seen(SetFb(U, key, color),
              [widget |-> "static_color", key |-> key, event |-> U.event], color)

\* counter_buttons without the wrap at either end
counter_buttons_unwrapped(U, MAX, start, site) ==
    IF ~Going(U) THEN U
    ELSE LET id == <<"counter_buttons", start, site>>
             old == Lookup(U.data, id, 0)
             n == old + (IF U.event = KeyDown(start) THEN 0 - 1
                         ELSE IF U.event = KeyDown(start + 1) THEN 1 ELSE 0)
             U1 == SetFb([U EXCEPT !.data = Store(@, id, n)], start,
                         IF U.event = KeyDown(start) THEN simple(2) ELSE simple(1))
             U2 == IF Going(U1)
                   THEN SetFb(U1, start + 1,
                         IF U.event = KeyDown(start + 1) THEN simple(2) ELSE simple(1))
                   ELSE U1
         IN  Seen(U2, [widget |-> "counter_buttons", key |-> start, event |-> U.event,
                       was |-> old], n)

counter_buttons(U, MAX, start, site) ==
    IF ~Going(U) THEN U
    ELSE LET id == <<"counter_buttons", start, site>>
             old == Lookup(U.data, id, 0)
             m == old + (IF U.event = KeyDown(start) THEN 0 - 1
                         ELSE IF U.event = KeyDown(start + 1) THEN 1 ELSE 0)
             n == IF m = MAX THEN 0 ELSE IF m = 0 - 1 THEN MAX - 1 ELSE m
             U1 == SetFb([U EXCEPT !.data = Store(@, id, n)], start,
                         IF U.event = KeyDown(start) THEN simple(2) ELSE simple(1))
             U2 == IF Going(U1)
                   THEN SetFb(U1, start + 1,
                         IF U.event = KeyDown(start + 1) THEN simple(2) ELSE simple(1))
                   ELSE U1
         IN  Seen(U2, [widget |-> "counter_buttons", key |-> start, event |-> U.event,
                       was |-> old], n)

\* info_button that scrolls its text on the KeyDown of any key
info_button_on_any_key(U, key, color, text) ==
    IF ~Going(U) THEN U
    ELSE LET U1 == SetFb(U, key, color)
             U2 == IF Going(U1) /\ U.event.type = "KeyDown"
                   THEN SendUnwrap(U1, ScrollText(Some(FALSE), Some(15),
                                                  Some(Palette(3)), Some(text)))
                   ELSE U1
         IN  Seen(U2, [widget |-> "info_button", key |-> key, event |-> U.event],
                  U.event = KeyDown(key))

info_button(U, key, color, text) ==
    IF ~Going(U) THEN U
    ELSE LET U1 == SetFb(U, key, color)
             U2 == IF Going(U1) /\ U.event = KeyDown(key)
                   THEN SendUnwrap(U1, ScrollText(Some(FALSE), Some(15),
                                                  Some(Palette(3)), Some(text)))
                   ELSE U1
         IN  Seen(U2, [widget |-> "info_button", key |-> key, event |-> U.event],
                  U.event = KeyDown(key))

\* impulse_button returning true only when the key was not already pressed
impulse_button_edge(U, key, site, color, pressed_color) ==
    IF ~Going(U) THEN U
    ELSE LET id == <<"impulse_button", key, site>>
             old == Lookup(U.data, id, FALSE)
             pressed == Pressed(U.event, key, old)
         IN  Seen(SetFb([U EXCEPT !.data = Store(@, id, pressed)], key,
                        IF pressed THEN pressed_color ELSE color),
                  [widget |-> "impulse_button", key |-> key, site |-> site,
                   event |-> U.event, was |-> old,
                   again |-> <<key, site>> \in U.fired],
                  U.event = KeyDown(key) /\ ~old)

impulse_button(U, key, site, color, pressed_color) ==
    IF ~Going(U) THEN U
    ELSE LET id == <<"impulse_button", key, site>>
             old == Lookup(U.data, id, FALSE)
             pressed == Pressed(U.event, key, old)
         IN  Seen(SetFb([U EXCEPT !.data = Store(@, id, pressed)], key,
                        IF pressed THEN pressed_color ELSE color),
                  [widget |-> "impulse_button", key |-> key, site |-> site,
                   event |-> U.event, was |-> old,
                   again |-> <<key, site>> \in U.fired],
                  U.event = KeyDown(key))

\* monostable that follows the level of val
monostable_level(U, val, extra_key, site) ==
    IF ~Going(U) THEN U
    ELSE LET id == <<"monostable", extra_key, site>>
         IN  Seen([U EXCEPT !.data = Store(@, id, val)],
                  [widget |-> "monostable", key |-> extra_key, event |-> U.event,
                   val |-> val,
                   rec |-> IF id \in DOMAIN U.data THEN Some(U.data[id]) ELSE None],
                  val)

monostable(U, val, extra_key, site) ==
    IF ~Going(U) THEN U
    ELSE LET id == <<"monostable", extra_key, site>>
             prev == Lookup(U.data, id, val)
         IN  Seen([U EXCEPT !.data = Store(@, id, val)],
                  [widget |-> "monostable", key |-> extra_key, event |-> U.event,
                   val |-> val,
                   rec |-> IF id \in DOMAIN U.data THEN Some(U.data[id]) ELSE None],
                  val /\ ~prev)

holdable_button(U, key, site, color, pressed_color) ==
    IF ~Going(U) THEN U
    ELSE LET id == <<"holdable_button", key, site>>
             old == Lookup(U.data, id, FALSE)
             pressed == Pressed(U.event, key, old)
         IN  Seen(SetFb([U EXCEPT !.data = Store(@, id, pressed)], key,
                        IF pressed THEN pressed_color ELSE color),
                  [widget |-> "holdable_button", key |-> key, site |-> site,
                   event |-> U.event, was |-> old],
                  pressed)

\* the slider's value in integer arithmetic: (i as u64 * 127 / 7) as u8
slider_value_truncated(i) == (127 * i) \div 7

\* (i as f32 * 127. / 7. - 0.1).round() as u8, in integers: the nearest
\* integer to (1270 * i - 7) / 70, which is never half way
slider_value(i) == (1270 * i + 28) \div 70

\* the slider's loop body for i, then for the positions after it
RECURSIVE slider_from(_, _, _, _, _)
slider_from(U, start, site, brightness, i) ==
    IF i >= 8 \/ ~Going(U) THEN U
    ELSE LET level == IF IsSome(brightness) THEN brightness[1] ELSE 255
             color == IF level \div 16 = i THEN simple(113) ELSE simple(104)
             U1 == impulse_button(U, start + i, site, color, color)
             U2 == IF Going(U1) /\ U1.ret
                   THEN SendUnwrap(SendUnwrap(U1, SetBrightness(slider_value(i))),
                                   GetBrightness)
                   ELSE U1
         IN  slider_from(U2, start, site, brightness, i + 1)

\* led_slider that keeps the brightness it had whatever the event
led_slider_deaf(U, start, site) ==
    IF ~Going(U) THEN U
    ELSE IF start % 10 # 1 THEN [U EXCEPT !.status = "Panic"]
    ELSE LET id == <<"led_slider", 0, 0>>
             old == Lookup(U.data, id, None)
             U1 == Seen([U EXCEPT !.data = Store(@, id, old)],
                        [widget |-> "led_slider", key |-> start, event |-> U.event,
                         was |-> old], old)
             U2 == IF old = None THEN SendUnwrap(U1, GetBrightness) ELSE U1
         IN  slider_from(U2, start, site, old, 0)

led_slider(U, start, site) ==
    IF ~Going(U) THEN U
    ELSE IF start % 10 # 1 THEN [U EXCEPT !.status = "Panic"]
    ELSE LET id == <<"led_slider", 0, 0>>
             old == Lookup(U.data, id, None)
             brightness == IF U.event.type = "Brightness" THEN Some(U.event.b) ELSE old
             U1 == Seen([U EXCEPT !.data = Store(@, id, brightness)],
                        [widget |-> "led_slider", key |-> start, event |-> U.event,
                         was |-> old], brightness)
             U2 == IF brightness = None THEN SendUnwrap(U1, GetBrightness) ELSE U1
         IN  slider_from(U2, start, site, brightness, 0)

exit_if_fired(U1) ==
    IF Going(U1) /\ U1.ret THEN [U1 EXCEPT !.sent = Append(@, Exit)] ELSE U1
exit_button(U, key, site) ==
    exit_if_fired(impulse_button(U, key, site, simple(6), simple(6)))

\* awake that leaves the event as it is when it wakes
awake_keeps_event(U, key, site, color) ==
    IF ~Going(U) THEN U
    ELSE LET id == <<"awake", key, site>>
             old == Lookup(U.data, id, TRUE)
             new == IF old THEN U.event # KeyDown(key)
                    ELSE IF U.event = KeyUp(key) THEN FALSE
                    ELSE U.event.type = "KeyDown"
         IN  Seen(SetFb([U EXCEPT !.data = Store(@, id, new)],
                        key, IF new THEN color ELSE simple(0)),
                  [widget |-> "awake", key |-> key, event |-> U.event, was |-> old],
                  new)

awake(U, key, site, color) ==
    IF ~Going(U) THEN U
    ELSE LET id == <<"awake", key, site>>
             old == Lookup(U.data, id, TRUE)
             new == IF old THEN U.event # KeyDown(key)
                    ELSE IF U.event = KeyUp(key) THEN FALSE
                    ELSE U.event.type = "KeyDown"
             rewritten == IF ~old /\ U.event # KeyUp(key) /\ U.event.type = "KeyDown"
                          THEN Redraw ELSE U.event
         IN  Seen(SetFb([U EXCEPT !.data = Store(@, id, new), !.event = rewritten],
                        key, IF new THEN color ELSE simple(0)),
                  [widget |-> "awake", key |-> key, event |-> U.event, was |-> old],
                  new)

play_pause_button(U, key, site, playing_color, paused_color) ==
    IF ~Going(U) THEN U
    ELSE LET id == <<"play_pause_button", 0, 0>>
             old == Lookup(U.data, id, U.env.playing)
             playing == IF U.event.type = "MediaPlaying" THEN U.event.p ELSE old
             color == IF playing THEN playing_color ELSE paused_color
             U1 == impulse_button([U EXCEPT !.data = Store(@, id, playing)],
                                  key, site, color, color)
         IN  IF Going(U1) /\ U1.ret
             THEN External(U1, IF playing THEN "playerctl pause" ELSE "playerctl play")
             ELSE U1

---------------------------------------------------------------------------
(* The widget tree, main.rs 1025-1474.  U.env is what the program has read *)
(* of its surroundings: w_by_num and outputs from i3, and what lsusb,      *)
(* pactl and playerctl report.  Outputs are those of the output_colors     *)
(* table.  The notes handed to the audio thread are left out.              *)

output_colors == [o \in {"DP-1", "DP-2", "HDMI-1", "HDMI-2"} |->
                    CASE o = "DP-1" -> 29 [] o = "DP-2" -> 21
                      [] o = "HDMI-1" -> 37 [] o = "HDMI-2" -> 45]

\* an impulse_button that runs an i3 command when it fires
run_if_fired(U1, command) ==
    IF Going(U1) /\ U1.ret THEN External(U1, command) ELSE U1
command_button(U, key, site, color, pressed_color, command) ==
    run_if_fired(impulse_button(U, key, site, color, pressed_color), command)

workspace_key(n) == U8(81 - ((n \div 5) * 10) + (n % 5))

workspace_color(w) ==
    IF w.urgent THEN Simple(Pulsing(9))
    ELSE LET color == output_colors[w.output]
         IN  simple(U8(IF ~w.visible THEN color + 2
                       ELSE IF w.focused THEN color - 1 ELSE color))

\* animations::alert(..)?; tx.send(Event::Redraw).unwrap()
alerted(U, focus, T) ==
    [U EXCEPT !.S = T,
              !.evals = Append(@, [widget |-> "alert", key |-> focus[1],
                                   event |-> U.event, ret |-> Running(T)]),
              !.sent = IF Running(T) THEN Append(@, Redraw) ELSE @,
              !.status = IF Running(T) THEN @ ELSE "Err"]
alert_then_redraw(U, focus) == alerted(U, focus, alert(U.S, focus))

\* the body of the loop over workspace_num
workspace_button(U, n) ==
    IF ~Going(U) THEN U
    ELSE LET known == n \in DOMAIN U.env.w_by_num
             w == U.env.w_by_num[n]
             U1 == IF known THEN monostable(U, w.urgent, n, 1066) ELSE U
             U2 == IF known /\ w.urgent /\ U1.ret
                   THEN alert_then_redraw(U1, Some(workspace_key(n)))
                   ELSE U1
             color == IF known THEN workspace_color(w) ELSE simple(0)
         IN  command_button(U2, workspace_key(n), 1096, color, color,
                 IF known /\ w.focused /\ w.urgent
                 THEN <<"i3", "[urgent=latest workspace=__focused__] focus">>
                 ELSE <<"i3", "workspace number", n, U.i3_shift>>)

\* the body of the loop over the active outputs
output_button(U, base, output) ==
    IF ~Going(U) THEN U
    ELSE IF base < 21 THEN [U EXCEPT !.status = "Panic"]
    ELSE LET id == <<"CURRENT_OUTPUT_HELD", 0, 0>>
             held == Lookup(U.data, id, None)
             known == output.current_workspace \in DOMAIN U.env.w_by_num
             w == U.env.w_by_num[output.current_workspace]
             c == IF known
                  THEN U8(output_colors[w.output] + (IF ~w.focused THEN 2 ELSE 0))
                  ELSE 6
             U1 == impulse_button(U, base + 8, 1166, simple(c), simple(c))
             U2 == IF ~(Going(U1) /\ U1.ret) THEN U1
                   ELSE IF IsSome(held)
                   THEN External(External(U1, <<"i3", "swap", held[1], output.name>>),
                                 <<"i3", "focus output", output.name, FALSE>>)
                   ELSE External(U1, <<"i3", "focus output", output.name, U.i3_shift>>)
             now == IF U.event = KeyDown(base + 8) THEN Some(output.name)
                    ELSE IF U.event = KeyUp(base + 8) THEN None
                    ELSE held
         IN  IF Going(U2) THEN [U2 EXCEPT !.data = Store(@, id, now)] ELSE U2

\* static_color(88, ..): lsusb, then pactl
headset_light(U) ==
    IF ~Going(U) THEN U
    ELSE IF ~U.extok THEN [U EXCEPT !.status = "Err"]
    ELSE static_color(U, 88, CASE U.env.mic = "headset" -> simple(0)
                               [] U.env.mic = "idle" -> simple(9)
                               [] U.env.mic = "recording" -> flashing(9, 0))

\* one widget call of the tree
call(U, c) ==
    CASE c.w = "command" ->
            command_button(U, c.key, c.site, c.color, c.pressed_color, c.command)
      [] c.w = "workspace" -> workspace_button(U, c.n)
      [] c.w = "output" -> output_button(U, c.base, c.output)
      [] c.w = "headset" -> headset_light(U)
      [] c.w = "play_pause" ->
            play_pause_button(U, c.key, c.site, c.color, c.pressed_color)
      [] c.w = "holdable" ->
            holdable_button(U, c.key, c.site, c.color, c.pressed_color)
      [] c.w = "info" -> info_button(U, c.key, c.color, c.text)
      [] c.w = "static" -> static_color(U, c.key, c.color)
      [] c.w = "led_slider" -> led_slider(U, c.key, c.site)
      [] c.w = "exit" -> exit_button(U, c.key, c.site)

\* calls[lo..hi] made in order (the range is halved to keep evaluation shallow)
RECURSIVE calls_in_order(_, _, _, _)
calls_in_order(U, calls, lo, hi) ==
    IF lo > hi \/ ~Going(U) THEN U
    ELSE IF lo = hi THEN call(U, calls[lo])
    ELSE LET mid == (lo + hi) \div 2
         IN  calls_in_order(calls_in_order(U, calls, lo, mid), calls, mid + 1, hi)

Command(key, site, color, pressed_color, command) ==
    [w |-> "command", key |-> key, site |-> site, color |-> color,
     pressed_color |-> pressed_color, command |-> command]
Holdable(key, site, color, pressed_color) ==
    [w |-> "holdable", key |-> key, site |-> site, color |-> color,
     pressed_color |-> pressed_color]
StaticColor(key, color) == [w |-> "static", key |-> key, color |-> color]

\* the white and black keys of one octave, from key 11 + offset
white_keys(site, offset) ==
    [i \in 1..8 |-> Holdable(i - 1 + 11 + offset, site, simple(92), simple(91))]
black_keys(site, offset) ==
    [j \in 1..5 |-> LET i == <<0, 1, 3, 4, 5>>[j]
                    IN  Holdable(i + 22 + offset, site, simple(94), simple(93))]

\* the i3 tab
tab0_calls(outputs, shift) ==
    LET workspaces == [i \in 1..15 |-> [w |-> "workspace", n |-> i - 1]]
        active == [i \in 1..Len(outputs) |->
                      [w |-> "output", base |-> 81 - 10 * (i - 1),
                       output |-> outputs[i]]]
    IN      <<Command(91, 1045, simple(1), simple(2),
                      <<"i3", IF shift THEN "move up" ELSE "focus up">>),
              Command(92, 1048, simple(1), simple(2),
                      <<"i3", IF shift THEN "move down" ELSE "focus down">>),
              Command(93, 1051, simple(1), simple(2),
                      <<"i3", IF shift THEN "move left" ELSE "focus left">>),
              Command(94, 1054, simple(1), simple(2),
                      <<"i3", IF shift THEN "move right" ELSE "focus right">>)>>
            \o workspaces \o active
            \o <<[w |-> "headset"],
                 Command(68, 1267, simple(92), simple(92),
                         <<"i3", "exec --no-startup-id i3-workspace-swap">>),
                 [w |-> "play_pause", key |-> 58, site |-> 1270,
                  color |-> simple(21), pressed_color |-> simple(23)],
                 Command(51, 1271, simple(109), simple(109),
                         <<"i3", "exec --no-startup-id lock">>),
                 Command(67, 1279, simple(70), simple(71),
                         <<"i3", "exec --no-startup-id iot big-lamp on">>),
                 Command(57, 1282, simple(70), simple(71),
                         <<"i3", "exec --no-startup-id iot big-lamp off">>),
                 Command(52, 1285, simple(110), simple(110),
                         <<"i3", "exec --no-startup-id xset dpms force off">>)>>
            \o white_keys(1351, 0) \o black_keys(1373, 0)

\* the rest of the i3 tab once the shift key has been drawn
tab0_shifted(U1, calls) ==
    IF Going(U1)
    THEN calls_in_order([U1 EXCEPT !.i3_shift = U1.ret], calls, 1, Len(calls))
    ELSE U1

tab0_after(U1) == tab0_shifted(U1, tab0_calls(U1.env.outputs, U1.ret))

tab0(U) == tab0_after(holdable_button(U, 53, 1042, simple(2), simple(3)))

\* u8::to_string as bytes
to_string(n) ==
    IF n < 10 THEN <<48 + n>>
    ELSE IF n < 100 THEN <<48 + (n \div 10), 48 + (n % 10)>>
    ELSE <<48 + (n \div 100), 48 + ((n \div 10) % 10), 48 + (n % 10)>>

keypad_keys == rect(11, 88)

\* the palette tab
tab1_calls(base) ==
    [i \in 1..Len(keypad_keys) |->
        [w |-> "info", key |-> keypad_keys[i],
         color |-> simple(U8(base + i - 1)),
         text |-> to_string(U8(base + i - 1))]]

\* the rest of the palette tab once the page buttons have been drawn
tab1_paged(U1, base) ==
    IF ~Going(U1) THEN U1
    ELSE IF base < 0 \/ base > 255 THEN [U1 EXCEPT !.status = "Panic"]
    ELSE calls_in_order(U1, tab1_calls(base), 1, Len(keypad_keys))

tab1_after(U1) == tab1_paged(U1, IF Going(U1) THEN U1.ret * 64 ELSE 0)

tab1(U) == tab1_after(counter_buttons(U, 2, 93, 1393))

\* the piano tab
tab2(U) ==
    LET calls == white_keys(1417, 0) \o black_keys(1439, 0)
                 \o white_keys(1417, 20) \o black_keys(1439, 20)
                 \o white_keys(1417, 40) \o black_keys(1439, 40)
                 \o white_keys(1417, 60) \o black_keys(1439, 60)
    IN  calls_in_order(U, calls, 1, Len(calls))

\* the settings tab
tab3(U) ==
    LET blue == <<81, 71, 61, 51, 52, 86, 87, 76, 78, 66, 68, 56, 57>>
        pink == <<83, 84, 85, 73, 74, 63, 53, 54, 55>>
        calls == [i \in 1..Len(blue) |-> StaticColor(blue[i], simple(40))]
                 \o [i \in 1..Len(pink) |-> StaticColor(pink[i], simple(113))]
                 \o <<[w |-> "led_slider", key |-> 31, site |-> 1468],
                      [w |-> "exit", key |-> 18, site |-> 1469]>>
    IN  calls_in_order(U, calls, 1, Len(calls))

\* if ui.awake(19, ..) { let tab = ui.tabs::<4>(95); match tab { .. } }
tree_tab(U2) ==
    IF ~Going(U2) THEN U2
    ELSE CASE U2.ret = 0 -> tab0(U2)
           [] U2.ret = 1 -> tab1(U2)
           [] U2.ret = 2 -> tab2(U2)
           [] U2.ret = 3 -> tab3(U2)
           [] OTHER -> [U2 EXCEPT !.status = "Panic"]

\* tree_awake with the tab strip and the tab evaluated asleep or awake
tree_awake_ungated(U1) ==
    IF ~Going(U1) THEN U1 ELSE tree_tab(tabs(U1, 4, 95, 1032))

tree_awake(U1) ==
    IF ~(Going(U1) /\ U1.ret) THEN U1 ELSE tree_tab(tabs(U1, 4, 95, 1032))

tree(U) == tree_awake(awake(U, 19, 1031, simple(47)))

---------------------------------------------------------------------------
(* Event Loop: fn main, main.rs 514-1480.  The producers (the MIDI         *)
(* callback, the i3, playerctl and timer threads, the signal thread) put   *)
(* events on the channel at any time; main consumes them one tick at a     *)
(* time.  wstate holds the widgets' DATA, the surroundings as last read,   *)
(* the number of events produced and which impulse buttons have fired      *)
(* since the last KeyUp at their key, and which keys the iterations have  *)
(* seen go down and not up again; obs is the record of the last tick.      *)

MaxEvents == 2

calm == [n \in {1} |-> [output |-> "DP-1", visible |-> TRUE, focused |-> TRUE,
                        urgent |-> FALSE]]
alarmed == [n \in {1} |-> [output |-> "DP-1", visible |-> TRUE, focused |-> TRUE,
                           urgent |-> TRUE]]
I3States == {calm, alarmed}

\* what the program finds around it when it starts
Environments ==
    { [w_by_num |-> calm, outputs |-> <<[name |-> "DP-1", current_workspace |-> 1]>>,
       mic |-> "idle", playing |-> FALSE],
      [w_by_num |-> alarmed, outputs |-> <<[name |-> "DP-1", current_workspace |-> 1]>>,
       mic |-> "recording", playing |-> TRUE] }

\* what the device reports through the MIDI callback
MidiEvents == {KeyDown(19), KeyDown(91), KeyUp(91)}

\* how a tick can go wrong: the transport fails after link transmissions, or
\* the external commands do
TickFaults ==
    {[link |-> l, extok |-> TRUE] : l \in Links}
    \cup {[link |-> NeverFails, extok |-> FALSE]}

\* impl Drop for Launchpad: the failure of the send is only reported
drop(S) ==
    LET T == send([S EXCEPT !.status = "Ok"], SetProgrammerMode(FALSE))
    IN  [T EXCEPT !.status = S.status]

\* main has returned (how: "Ok", "Err" or "Panic") and its launchpad is dropped
dropped(T, op, arg) ==
    /\ current' = T.current
    /\ send_buf' = T.send_buf
    /\ complex_color_buf' = T.complex_color_buf
    /\ device' = T.device
    /\ last' = [op |-> op, arg |-> arg, status |-> T.status, log |-> T.log,
                n |-> last.n, clean |-> last.clean /\ T.status = "Ok"]
    /\ repeated' = FALSE
    /\ pc' = IF T.status = "Ok" THEN "exited" ELSE "failed"

Left(S, op, arg) == dropped(drop(S), op, arg)

\* main goes on
Stayed(S, op, arg) ==
    /\ current' = S.current
    /\ send_buf' = S.send_buf
    /\ complex_color_buf' = S.complex_color_buf
    /\ device' = S.device
    /\ last' = [op |-> op, arg |-> arg, status |-> "Ok", log |-> S.log,
                n |-> last.n, clean |-> last.clean]
    /\ repeated' = FALSE
    /\ pc' = "loop"

blank_fb == [key \in Playable |-> simple(0)]

\* main.rs 592-607: SetAwake, the startup animation, the events that came
\* meanwhile discarded, a Redraw queued, the frame buffer built
started(S) ==
    IF Running(S)
    THEN /\ Stayed(S, "startup", None)
         /\ queue' = <<Redraw>>
         /\ fb' = blank_fb
    ELSE /\ Left(S, "startup", None)
         /\ UNCHANGED <<queue, fb>>

StartUp(link) ==
    /\ pc = "start"
    /\ started(startup(send(Session(link), SetAwake(TRUE))))
    /\ UNCHANGED <<event, wstate, obs>>

\* Produce with the event put at the head of the channel
Produce_front(e) ==
    /\ queue' = <<e>> \o queue
    /\ wstate' = [wstate EXCEPT !.produced = @ + 1]
    /\ UNCHANGED <<sessionVars, pc, event, fb, obs>>

Produce(e) ==
    /\ queue' = Append(queue, e)
    /\ wstate' = [wstate EXCEPT !.produced = @ + 1]
    /\ UNCHANGED <<sessionVars, pc, event, fb, obs>>

\* the MIDI callback of connect, main.rs 574-580
Midi(e) ==
    /\ pc \in {"start", "loop"}
    /\ wstate.produced < MaxEvents
    /\ Produce(e)

\* the i3 subscription thread, main.rs 519-543
I3Notify ==
    /\ pc \in {"start", "loop"}
    /\ wstate.produced < MaxEvents
    /\ Produce(I3)

\* the playerctl thread, main.rs 545-559
MediaNotify(p) ==
    /\ pc \in {"start", "loop"}
    /\ wstate.produced < MaxEvents
    /\ Produce(MediaPlaying(p))

\* the timer thread, main.rs 561-570
Timer ==
    /\ pc \in {"start", "loop"}
    /\ wstate.produced < MaxEvents
    /\ Produce(Redraw)

\* Signal for a thread that sends Exit for every signal
Signal_every_time ==
    /\ pc \in {"start", "loop"}
    /\ queue' = Append(queue, Exit)
    /\ wstate' = [wstate EXCEPT !.signalled = TRUE]
    /\ UNCHANGED <<sessionVars, pc, event, fb, obs>>

\* the signal thread, main.rs 66-71: one Exit, for the first signal
Signal ==
    /\ ~wstate.signalled
    /\ pc \in {"start", "loop"}
    /\ queue' = Append(queue, Exit)
    /\ wstate' = [wstate EXCEPT !.signalled = TRUE]
    /\ UNCHANGED <<sessionVars, pc, event, fb, obs>>

\* a further signal once the first has set the flag, main.rs 55-58: the
\* conditional shutdown hook ends the process at once, no destructor run
SecondSignal ==
    /\ wstate.signalled
    /\ pc \in {"start", "loop"}
    /\ pc' = "killed"
    /\ UNCHANGED <<sessionVars, queue, event, fb, wstate, obs>>

\* the impulse buttons that have fired since the last KeyUp at their key
Fired(fired, ev, evals) ==
    {f \in fired : ev # KeyUp(f[1])}
    \cup {<<evals[i].key, evals[i].site>> :
            i \in {j \in DOMAIN evals : evals[j].widget = "impulse_button" /\ evals[j].ret}}

\* the keys whose latest KeyDown or KeyUp taken from the channel by an
\* iteration is a KeyDown
Down(down, ev) ==
    IF ev.type = "KeyDown" THEN down \cup {ev.key}
    ELSE IF ev.type = "KeyUp" THEN down \ {ev.key}
    ELSE down

\* new_ui with the frame buffer left as the last iteration drew it
new_ui_overdrawn(ev, env, link, extok) ==
    [event |-> ev, fb |-> fb, data |-> wstate.data,
     S |-> Session(link), sent |-> <<>>, ext |-> <<>>, extok |-> extok,
     evals |-> <<>>, ret |-> None, status |-> "Ok", env |-> env,
     i3_shift |-> FALSE, fired |-> {f \in wstate.fired : ev # KeyUp(f[1])}]

\* the Ui of one iteration: the frame buffer cleared, the widgets' data
new_ui(ev, env, link, extok) ==
    [event |-> ev, fb |-> [key \in DOMAIN fb |-> simple(0)], data |-> wstate.data,
     S |-> Session(link), sent |-> <<>>, ext |-> <<>>, extok |-> extok,
     evals |-> <<>>, ret |-> None, status |-> "Ok", env |-> env,
     i3_shift |-> FALSE, fired |-> {f \in wstate.fired : ev # KeyUp(f[1])}]

\* i3 read again on Event::I3 (with `?`), then the widget tree
evaluated(U0) ==
    IF U0.event = I3 /\ ~U0.extok THEN [U0 EXCEPT !.status = "Err"]
    ELSE IF Playable \subseteq DOMAIN U0.fb THEN tree(U0)
    ELSE [U0 EXCEPT !.status = "Panic"]

\* launchpad.full_update(&ui.fb)? at the end of the iteration
reconciled(U) ==
    IF Going(U) THEN full_update(U.S, U.fb) ELSE [U.S EXCEPT !.status = U.status]

iterated(S, ev) == IF Running(S) THEN Stayed(S, "tick", ev) ELSE Left(S, "tick", ev)

ticked(U, ev) ==
    /\ iterated(reconciled(U), ev)
    /\ queue' = Tail(queue) \o U.sent
    /\ event' = Some(ev)
    /\ fb' = U.fb
    /\ wstate' = [wstate EXCEPT !.data = U.data, !.env = U.env,
                                !.fired = Fired(wstate.fired, ev, U.evals),
                                !.down = Down(wstate.down, ev)]
    /\ obs' = [evals |-> U.evals, ext |-> U.ext, sent |-> U.sent]

\* one iteration of `for event in rx.iter()` for an event other than Exit,
\* main.rs 730-1476: i3 read again on I3, the frame buffer cleared, the
\* widget tree evaluated, full_update
Tick(link, extok, i3) ==
    /\ pc = "loop"
    /\ queue # <<>>
    /\ Head(queue) # Exit
    /\ Head(queue) = I3 \/ i3 = wstate.env.w_by_num
    /\ ticked(evaluated(new_ui(Head(queue),
                               IF Head(queue) = I3
                               THEN [wstate.env EXCEPT !.w_by_num = i3]
                               ELSE wstate.env,
                               link, extok)),
              Head(queue))

\* ExitLoop with the frame buffer blanked and reconciled before the shutdown
\* animation
ExitLoop_redrawn(link) ==
    /\ pc = "loop"
    /\ queue # <<>>
    /\ Head(queue) = Exit
    /\ Left(shutdown(full_update(Session(link), blank_fb)), "shutdown", None)
    /\ queue' = Tail(queue)
    /\ event' = Some(Exit)
    /\ UNCHANGED <<fb, wstate, obs>>

\* Exit dequeued: break, animations::shutdown, return
ExitLoop(link) ==
    /\ pc = "loop"
    /\ queue # <<>>
    /\ Head(queue) = Exit
    /\ Left(shutdown(Session(link)), "shutdown", None)
    /\ queue' = Tail(queue)
    /\ event' = Some(Exit)
    /\ UNCHANGED <<fb, wstate, obs>>

LoopInit ==
    /\ SessionInit
    /\ pc = "start"
    /\ queue = <<>>
    /\ event = None
    /\ fb = <<>>
    /\ \E env \in Environments :
          wstate = [data |-> <<>>, env |-> env, produced |-> 0, signalled |-> FALSE,
                    fired |-> {}, down |-> {}]
    /\ obs = [evals |-> <<>>, ext |-> <<>>, sent |-> <<>>]

LoopNext ==
    \/ \E l \in Links : StartUp(l)
    \/ \E e \in MidiEvents : Midi(e)
    \/ I3Notify
    \/ \E p \in {TRUE} : MediaNotify(p)
    \/ Timer
    \/ Signal
    \/ SecondSignal
    \/ \E f \in TickFaults : \E i3 \in I3States : Tick(f.link, f.extok, i3)
    \/ \E l \in Links : ExitLoop(l)

LoopSpec == LoopInit /\ [][LoopNext]_vars

---------------------------------------------------------------------------
(* Properties of the widgets, checked under LoopSpec.  obs.evals is the    *)
(* record of the last iteration: its widget calls in order, each with the  *)
(* event the widget saw and what it returned.                              *)

\* a step of Tick: an event other than Exit leaves the head of the channel,
\* no producer has acted and the process was not killed
IsTick ==
    /\ pc = "loop"
    /\ queue # <<>>
    /\ Head(queue) # Exit
    /\ wstate'.produced = wstate.produced
    /\ wstate'.signalled = wstate.signalled
    /\ pc' # "killed"

ImpulseCalls == {i \in DOMAIN obs.evals : obs.evals[i].widget = "impulse_button"}
MonostableCalls == {i \in DOMAIN obs.evals : obs.evals[i].widget = "monostable"}

\* C8 (as stated): an impulse button returns true on one iteration only
\* between a KeyDown at its key and the next KeyUp at its key: it never
\* returns true when it has already returned true since the last KeyUp.
C8_OncePerPress ==
    \A i \in ImpulseCalls : ~(obs.evals[i].ret /\ obs.evals[i].again)

\* C8 (amended): an impulse button returns true on exactly the iterations
\* whose event, as the widget sees it, is KeyDown at its key, a KeyDown
\* repeated without a KeyUp included: true only when the event taken from
\* the channel is that KeyDown, and always then if the gate was awake.
C8_TrueOnEveryKeyDown ==
    last.op = "tick" =>
        \A i \in ImpulseCalls :
            /\ obs.evals[i].ret = (obs.evals[i].event = KeyDown(obs.evals[i].key))
            /\ obs.evals[i].ret => last.arg = KeyDown(obs.evals[i].key)
            /\ (last.arg = KeyDown(obs.evals[i].key) /\ obs.evals[1].was)
                  => obs.evals[i].ret

\* the button at 91 returns true for a KeyDown that follows a KeyDown
C8_Witness ==
    \E i \in ImpulseCalls :
        /\ obs.evals[i].key = 91
        /\ obs.evals[i].was
        /\ obs.evals[i].again
        /\ obs.evals[i].ret
        /\ last.op = "tick"
        /\ last.arg = KeyDown(91)

\* C9 (as stated): monostable returns true iff its value is true and the
\* value recorded for its identity was false, an identity never seen
\* counting as false.
C9_FreshCountsAsFalse ==
    \A i \in MonostableCalls :
        obs.evals[i].ret = (/\ obs.evals[i].val
                            /\ obs.evals[i].rec \in {None, Some(FALSE)})

\* C9 (amended): monostable returns true iff its value is true and the
\* value recorded for its identity was false; the first call for an
\* identity records the value and returns false, and after every call the
\* value recorded is the value passed.
C9_RisingEdgeOfRecorded ==
    \A i \in MonostableCalls :
        /\ obs.evals[i].ret = (obs.evals[i].val /\ obs.evals[i].rec = Some(FALSE))
        /\ wstate.data[<<"monostable", obs.evals[i].key, 1066>>] = obs.evals[i].val

\* workspace 1 became urgent after a call that recorded it as not urgent
C9_Witness ==
    \E i \in MonostableCalls :
        /\ obs.evals[i].val
        /\ obs.evals[i].rec = Some(FALSE)
        /\ obs.evals[i].ret

\* workspace 1 is urgent at the first call for its identity
C9_WitnessFresh ==
    \E i \in MonostableCalls :
        /\ obs.evals[i].val
        /\ obs.evals[i].rec = None
        /\ ~obs.evals[i].ret

awake_id == <<"awake", 19, 1031>>

\* C10: when the gate is awake, a KeyDown at its key puts it to sleep, it
\* returns false, and the iteration calls no other widget, changes no other
\* widget's data, lights no key, sends no event and runs no command; when
\* it is asleep, a KeyDown at any key wakes it, it returns true, and every
\* widget called after it in the iteration sees Redraw: no impulse button
\* fires and no command runs.
C10_SleepGate ==
    [][IsTick =>
        /\ (Lookup(wstate.data, awake_id, TRUE) /\ Head(queue) = KeyDown(19))
              => /\ obs'.evals = <<[widget |-> "awake", key |-> 19,
                                    event |-> KeyDown(19), was |-> TRUE,
                                    ret |-> FALSE]>>
                 /\ wstate'.data = Store(wstate.data, awake_id, FALSE)
                 /\ fb' = blank_fb
                 /\ obs'.sent = <<>>
                 /\ obs'.ext = <<>>
        /\ (~Lookup(wstate.data, awake_id, TRUE) /\ Head(queue).type = "KeyDown")
              => /\ obs'.evals[1] = [widget |-> "awake", key |-> 19,
                                     event |-> Head(queue), was |-> FALSE,
                                     ret |-> TRUE]
                 /\ wstate'.data[awake_id]
                 /\ \A i \in 2..Len(obs'.evals) :
                        /\ obs'.evals[i].event = Redraw
                        /\ obs'.evals[i].widget = "impulse_button"
                              => ~obs'.evals[i].ret
                 /\ obs'.ext = <<>>
      ]_vars

\* asleep, the gate was woken by a KeyDown at 91 and the whole of tab 0
\* was called after it
C10_Witness ==
    /\ event = Some(KeyDown(91))
    /\ obs.evals # <<>>
    /\ ~obs.evals[1].was
    /\ obs.evals[1].ret
    /\ Len(obs.evals) > 40
    /\ last.status = "Ok"

\* awake, the gate was put to sleep by a KeyDown at 19
C10_WitnessAsleep ==
    /\ event = Some(KeyDown(19))
    /\ Len(obs.evals) = 1
    /\ obs.evals[1].was
    /\ ~obs.evals[1].ret
    /\ fb = blank_fb

---------------------------------------------------------------------------
(* animations::alert, one step at a time: main.rs 255-428.  A step is what *)
(* alert sends between two sleeps; last.arg is the focus alert was called  *)
(* with and last.n the number of steps taken.  The display is lit when     *)
(* alert is called.                                                        *)

AlertFocuses == {None} \cup {Some(k) : k \in Playable}

AlertInit ==
    /\ current = Uniform(simple(5))
    /\ send_buf = append_to_vec(KeyOn(99, Static(5)), <<>>).buf
    /\ complex_color_buf = <<>>
    /\ device = Uniform(simple(5))
    /\ \E f \in AlertFocuses :
          last = [op |-> "alert", arg |-> f, status |-> "Ok", log |-> <<>>,
                  n |-> 0, clean |-> TRUE]
    /\ repeated = FALSE
    /\ LoopIdle

\* the sends of alert up to its next sleep (or its return), over a transport
\* that accepts `link` more transmissions
AlertStep(link) ==
    /\ last.op = "alert"
    /\ last.status = "Ok"
    /\ last.n < Len(alert_steps(last.arg))
    /\ Done(send_all(Session(link), alert_steps(last.arg)[last.n + 1], 1,
                     Len(alert_steps(last.arg)[last.n + 1])),
            "alert", last.arg)
    /\ repeated' = FALSE
    /\ UNCHANGED loopVars

AlertNext == \E l \in Links : AlertStep(l)

AlertSpec == AlertInit /\ [][AlertNext]_vars

\* the keys at distance r from (5, 5): the ring of radius r around key 55
Away(a, b) == IF a >= b THEN a - b ELSE b - a
Ring55(r) ==
    {coords_to_key(c[1], c[2]) :
        c \in {d \in (1..9) \X (1..9) :
                  (IF Away(d[1], 5) >= Away(d[2], 5)
                   THEN Away(d[1], 5) ELSE Away(d[2], 5)) = r}}

\* the keys whose LED a step changed
Relit == {k \in Playable : device'[k] # device[k]}

\* C11: alert with focus 55 (given, or by default) takes, after clearing the
\* display and pulsing key 55, exactly 4 expansion steps, the r-th lighting
\* the ring of radius r (r = 1, 2, 3, 4); then, after the hold, exactly 4
\* contraction steps, the j-th darkening the ring of radius 5 - j
\* (4, 3, 2, 1) and nothing else; one last step remains, which darkens key
\* 55 when no focus was given.
C11_AlertRings ==
    [][(/\ last.op = "alert"
        /\ last.arg \in {None, Some(55)}
        /\ last'.n = last.n + 1
        /\ last'.status = "Ok")
       => /\ last'.n <= 10
          /\ last'.n = 1 => /\ device'[55] = Simple(Pulsing(9))
                            /\ \A k \in Playable \ {55} : device'[k] = Off
          /\ last'.n \in 2..5 =>
                /\ Relit = Ring55(last'.n - 1)
                /\ \A k \in Relit : device'[k] = simple(9)
          /\ last'.n \in 6..9 =>
                /\ Relit = Ring55(10 - last'.n)
                /\ \A k \in Relit : device'[k] = Off
          /\ last'.n = 10 =>
                /\ Relit = IF last.arg = None THEN {55} ELSE {}
                /\ Len(alert_steps(last.arg)) = 10]_vars

\* the first contraction step is done: the ring of radius 4 is dark again,
\* the ring of radius 3 still lit
C11_Witness ==
    /\ last.op = "alert"
    /\ last.arg = Some(55)
    /\ last.n = 6
    /\ last.status = "Ok"
    /\ device[99] = Off
    /\ device[88] = simple(9)
    /\ device[55] = Simple(Pulsing(9))

---------------------------------------------------------------------------
(* coords_to_key and key_to_coords applied to any value, and to each        *)
(* other's results: lib.rs 40-47.  A value is <<x, y>> or <<key>>; last.ret *)
(* is the value the last call returned, last.arg what it was given and      *)
(* last.prev what the call before it was given.                             *)

\* coordinates go up to MaxCoord (10 * y + x stays within u8)
MaxCoord == 12

CoordInit ==
    /\ current = connect_current
    /\ send_buf = <<>>
    /\ complex_color_buf = <<>>
    /\ device = connect_current
    /\ \E v \in ((0..MaxCoord) \X (0..MaxCoord)) \cup {<<key>> : key \in U8s} :
          last = [op |-> "input", arg |-> None, prev |-> None, ret |-> v, n |-> 0]
    /\ repeated = FALSE
    /\ LoopIdle

CoordsToKey ==
    /\ Len(last.ret) = 2
    /\ last.n < MaxOps
    /\ last' = [op |-> "coords_to_key", arg |-> last.ret, prev |-> last.arg,
                ret |-> <<coords_to_key(last.ret[1], last.ret[2])>>,
                n |-> last.n + 1]
    /\ UNCHANGED <<current, send_buf, complex_color_buf, device, repeated, loopVars>>

KeyToCoords ==
    /\ Len(last.ret) = 1
    /\ last.n < MaxOps
    /\ last' = [op |-> "key_to_coords", arg |-> last.ret, prev |-> last.arg,
                ret |-> key_to_coords(last.ret[1]), n |-> last.n + 1]
    /\ UNCHANGED <<current, send_buf, complex_color_buf, device, repeated, loopVars>>

CoordNext == CoordsToKey \/ KeyToCoords

CoordSpec == CoordInit /\ [][CoordNext]_vars

Grid == (1..9) \X (1..9)
PlayableDomain == {k \in 11..99 : k % 10 # 0}

\* C12: key_to_coords undoes coords_to_key on x, y in 1..9 and
\* coords_to_key undoes key_to_coords on the keys 11..99 that are not
\* multiples of 10; coords_to_key takes the 81 pairs to such keys, no two
\* pairs to the same key, and every such key is the image of a pair.
C12_CoordsInverse ==
    /\ (last.op = "key_to_coords" /\ last.prev \in Grid) => last.ret = last.prev
    /\ (last.op = "coords_to_key" /\ last.prev # None /\ last.prev[1] \in PlayableDomain)
          => last.ret = last.prev
    /\ (last.op = "coords_to_key" /\ last.arg \in Grid)
          => /\ last.ret[1] \in PlayableDomain
             /\ \A c \in Grid : coords_to_key(c[1], c[2]) = last.ret[1] => c = last.arg
    /\ (last.op = "key_to_coords" /\ last.arg[1] \in PlayableDomain)
          => /\ last.ret \in Grid
             /\ coords_to_key(last.ret[1], last.ret[2]) = last.arg[1]
    /\ Cardinality(PlayableDomain) = 81
    /\ PlayableDomain = Playable

\* (9, 9) went to key 99 and came back
C12_Witness ==
    /\ last.op = "key_to_coords"
    /\ last.prev = <<9, 9>>
    /\ last.arg = <<99>>
    /\ last.ret = <<9, 9>>

\* key 37 went to (7, 3) and came back
C12_WitnessKey ==
    /\ last.op = "coords_to_key"
    /\ last.prev = <<37>>
    /\ last.arg = <<7, 3>>
    /\ last.ret = <<37>>

---------------------------------------------------------------------------
(* Properties of the event loop, checked under LoopSpec.  The signal       *)
(* thread sends one Exit and ends; the consumer leaves the loop for an     *)
(* Exit only by taking it from the channel.                                *)

ExitQueued == \E i \in DOMAIN queue : queue[i] = Exit

\* C13: once the signal thread has put Exit on the channel, at any time
\* after the handler is installed (the startup animation included), the
\* consumer loop is on its way out: it has left, or the Exit is still on
\* the channel for it to take.
C13_TerminateExits ==
    (wstate.signalled /\ pc # "killed") => (pc \in {"exited", "failed"} \/ ExitQueued)

\* the Exit sent during the startup animation is gone: the loop waits on a
\* channel that holds no Exit and the signal thread has ended
C13_WitnessDiscarded ==
    /\ wstate.signalled
    /\ pc = "loop"
    /\ ~ExitQueued
    /\ queue = <<>>

\* C13, from the loop on: an Exit on the channel while the loop runs stays
\* on it, behind the events enqueued before it, until the loop leaves.
C13_ExitKeptInLoop ==
    [][(pc = "loop" /\ ExitQueued) => (pc' \in {"exited", "failed"} \/ ExitQueued')]_vars

\* q is the head of r: r is q with events appended
Extends(r, q) == Len(r) >= Len(q) /\ SubSeq(r, 1, Len(q)) = q

\* C14 (as stated): no event is skipped: an event leaves the channel only
\* from its head, for the one iteration it triggers (or, for Exit, for the
\* loop to leave); every other step leaves the channel as it is or appends
\* to it.
C14_NoEventSkipped ==
    [][\/ Extends(queue', queue)
       \/ /\ queue # <<>>
          /\ Extends(queue', Tail(queue))
          /\ \/ Head(queue) = Exit /\ pc' \in {"exited", "failed"}
             \/ last'.op = "tick" /\ last'.arg = Head(queue)]_vars

\* C14 (amended): the events on the channel when the startup animation ends
\* are discarded, and Redraw queued; from then on every step is one of: a
\* producer appends one event; the loop takes the event at the head, not
\* Exit, runs one iteration for it, and the events the iteration sends go
\* to the back; the loop takes Exit from the head and leaves; the process
\* is killed, the channel as it was.
C14_FifoAfterDrain ==
    [][\/ pc' = "killed" /\ queue' = queue /\ event' = event /\ last' = last /\ obs' = obs
       \/ pc = "start" /\ pc' = "loop" /\ queue' = <<Redraw>> /\ event' = event
       \/ pc = "start" /\ pc' = "failed" /\ queue' = queue /\ event' = event
       \/ /\ Len(queue') = Len(queue) + 1
          /\ Extends(queue', queue)
          /\ pc' = pc /\ event' = event /\ last' = last /\ obs' = obs
       \/ /\ pc = "loop" /\ queue # <<>> /\ Head(queue) # Exit
          /\ event' = Some(Head(queue))
          /\ last'.op = "tick" /\ last'.arg = Head(queue)
          /\ queue' = Tail(queue) \o obs'.sent
       \/ /\ pc = "loop" /\ queue # <<>> /\ Head(queue) = Exit
          /\ pc' \in {"exited", "failed"}
          /\ queue' = Tail(queue)]_vars

\* KeyDown(91) and KeyUp(91) were enqueued in that order behind Redraw: the
\* iteration for KeyDown(91) has run, KeyUp(91) is next
C14_Witness ==
    /\ pc = "loop"
    /\ last.op = "tick"
    /\ last.arg = KeyDown(91)
    /\ event = Some(KeyDown(91))
    /\ queue = <<KeyUp(91)>>

\* the events produced during the startup animation are gone
C14_WitnessDrained ==
    /\ pc = "loop"
    /\ event = None
    /\ wstate.produced = MaxEvents
    /\ queue = <<Redraw>>

---------------------------------------------------------------------------
(* Inbound messages: impl From<&[u8]> for Message, lib.rs 273-297, called  *)
(* on the input thread by the closure connect gives to midir (lib.rs       *)
(* 318-323), and main's callback, main.rs 572-582.  A decoded message is   *)
(* Some(m), a panic None.  What a panic on the input thread does to the    *)
(* process is the MIDI backend's affair: the thread ends, or the process   *)
(* is aborted.                                                             *)

VersionHead == <<240, 126, 0, 6, 2, 0, 32, 41, 19>>

\* Message::from taking any velocity but 0 for a key press
decode_any_velocity(m) ==
    IF Len(m) = 3 /\ m[1] \in {144, 176} /\ m[3] # 0
    THEN Some([msg |-> "KeyDown", key |-> m[2]])
    ELSE IF Len(m) = 3 /\ m[1] \in {144, 176} /\ m[3] = 0
    THEN Some([msg |-> "KeyUp", key |-> m[2]])
    ELSE IF /\ Len(m) = 17
            /\ SubSeq(m, 1, 9) = VersionHead
            /\ m[10] \in {1, 17}
            /\ SubSeq(m, 11, 12) = <<0, 0>>
            /\ m[17] = 247
    THEN Some([msg |-> IF m[10] = 1 THEN "ApplicationVersion" ELSE "BootloaderVersion",
               version |-> SubSeq(m, 13, 16)])
    ELSE IF Len(m) = 9 /\ SubSeq(m, 1, 6) = SysEx /\ m[9] = 247 /\ m[7] \in {0, 14, 9, 8}
    THEN CASE m[7] = 0 -> Some([msg |-> "Layout", layout |-> m[8]])
           [] m[7] = 14 -> Some([msg |-> "ProgrammerMode", enabled |-> m[8] = 1])
           [] m[7] = 9 -> Some([msg |-> "Awake", awake |-> m[8] = 1])
           [] m[7] = 8 -> Some([msg |-> "Brightness", brightness |-> m[8]])
    ELSE IF Len(m) = 10 /\ SubSeq(m, 1, 6) = SysEx /\ m[10] = 247 /\ m[7] = 10
    THEN Some([msg |-> "LedFeedback", internal |-> m[8] = 1, external |-> m[9] = 1])
    ELSE None

\* Message::from(&[u8])
decode(m) ==
    IF Len(m) = 3 /\ m[1] \in {144, 176} /\ m[3] = 127
    THEN Some([msg |-> "KeyDown", key |-> m[2]])
    ELSE IF Len(m) = 3 /\ m[1] \in {144, 176} /\ m[3] = 0
    THEN Some([msg |-> "KeyUp", key |-> m[2]])
    ELSE IF /\ Len(m) = 17
            /\ SubSeq(m, 1, 9) = VersionHead
            /\ m[10] \in {1, 17}
            /\ SubSeq(m, 11, 12) = <<0, 0>>
            /\ m[17] = 247
    THEN Some([msg |-> IF m[10] = 1 THEN "ApplicationVersion" ELSE "BootloaderVersion",
               version |-> SubSeq(m, 13, 16)])
    ELSE IF Len(m) = 9 /\ SubSeq(m, 1, 6) = SysEx /\ m[9] = 247 /\ m[7] \in {0, 14, 9, 8}
    THEN CASE m[7] = 0 -> Some([msg |-> "Layout", layout |-> m[8]])
           [] m[7] = 14 -> Some([msg |-> "ProgrammerMode", enabled |-> m[8] = 1])
           [] m[7] = 9 -> Some([msg |-> "Awake", awake |-> m[8] = 1])
           [] m[7] = 8 -> Some([msg |-> "Brightness", brightness |-> m[8]])
    ELSE IF Len(m) = 10 /\ SubSeq(m, 1, 6) = SysEx /\ m[10] = 247 /\ m[7] = 10
    THEN Some([msg |-> "LedFeedback", internal |-> m[8] = 1, external |-> m[9] = 1])
    ELSE None

\* main's callback: the events it sends, None where it panics
callback(message) ==
    CASE message.msg = "KeyDown" -> Some(<<KeyDown(message.key)>>)
      [] message.msg = "KeyUp" -> Some(<<KeyUp(message.key)>>)
      [] message.msg = "ProgrammerMode" -> Some(<<>>)
      [] message.msg = "Brightness" -> Some(<<Brightness(message.brightness)>>)
      [] OTHER -> None

\* move |ts, data, _| callback(ts, data.into())
on_midi(decoded) == IF IsSome(decoded) THEN callback(decoded[1]) ELSE None

MaxInbound == 3

InboundBytes ==
    { <<144, 19, 127>>, <<176, 91, 127>>, <<176, 91, 0>>, <<144, 19, 64>>,
      <<128, 19, 0>>, <<>>,
      SysEx \o <<14, 1, 247>>, SysEx \o <<8, 64, 247>>, SysEx \o <<9, 1, 247>>,
      SysEx \o <<0, 127, 247>>, SysEx \o <<10, 1, 0, 247>>, SysEx \o <<99, 247>>,
      VersionHead \o <<1, 0, 0, 1, 2, 3, 4, 247>> }

InboundInit ==
    /\ SessionInit
    /\ pc = "loop"
    /\ queue = <<>>
    /\ event = None
    /\ fb = blank_fb
    /\ wstate = [input |-> "running", produced |-> 0]
    /\ obs = <<>>

\* the rest of Inbound once the callback has returned r
received(bytes, r, ends) ==
    /\ queue' = IF IsSome(r) THEN queue \o r[1] ELSE queue
    /\ wstate' = [input |-> IF IsSome(r) THEN "running" ELSE ends,
                  produced |-> wstate.produced + 1]
    /\ pc' = IF ~IsSome(r) /\ ends = "aborted" THEN "aborted" ELSE pc
    /\ last' = [op |-> "inbound", arg |-> bytes,
                status |-> IF IsSome(r) THEN "Ok" ELSE "Panic",
                log |-> <<>>, n |-> last.n + 1, clean |-> last.clean]
    /\ UNCHANGED <<current, send_buf, complex_color_buf, device, repeated,
                   event, fb, obs>>

\* the device sends bytes: decoded and handed to the callback on the input
\* thread
Inbound(bytes, ends) ==
    /\ pc = "loop"
    /\ wstate.input = "running"
    /\ wstate.produced < MaxInbound
    /\ received(bytes, on_midi(decode(bytes)), ends)

InboundNext == \E bytes \in InboundBytes, ends \in {"panicked", "aborted"} :
                  Inbound(bytes, ends)

InboundSpec == InboundInit /\ [][InboundNext]_vars

\* C15: no inbound message, of a known layout or not, handled by the
\* application or not, stops the input thread or the process: the messages
\* after it are still decoded and delivered.
C15_InputSurvives ==
    last.op = "inbound" => (last.status = "Ok" /\ wstate.input = "running" /\ pc = "loop")

\* a key message with velocity 64 came after a KeyDown was delivered: the
\* input thread is gone
C15_WitnessUnknown ==
    /\ last.op = "inbound"
    /\ last.arg = <<144, 19, 64>>
    /\ last.status = "Panic"
    /\ wstate.input = "panicked"
    /\ queue = <<KeyDown(19)>>

\* an Awake reply, decoded but not handled by the callback, stopped it too
C15_WitnessUnhandled ==
    /\ last.op = "inbound"
    /\ last.arg = SysEx \o <<9, 1, 247>>
    /\ last.status = "Panic"

\* C15, for the layouts main handles: a KeyDown, KeyUp, ProgrammerMode or
\* Brightness message never stops the input thread, and all but
\* ProgrammerMode put one event at the back of the channel.
C15_HandledDelivered ==
    [][(/\ last'.op = "inbound"
        /\ last'.n = last.n + 1
        /\ \/ Len(last'.arg) = 3 /\ last'.arg[1] \in {144, 176} /\ last'.arg[3] \in {0, 127}
           \/ Len(last'.arg) = 9 /\ SubSeq(last'.arg, 1, 6) = SysEx
                                 /\ last'.arg[7] \in {8, 14} /\ last'.arg[9] = 247)
       => /\ last'.status = "Ok"
          /\ wstate'.input = "running"
          /\ Len(queue') = Len(queue) + (IF Len(last'.arg) = 9 /\ last'.arg[7] = 14
                                         THEN 0 ELSE 1)
          /\ Extends(queue', queue)]_vars

---------------------------------------------------------------------------
(* Teardown: impl Drop for Launchpad, lib.rs 393-402, checked under        *)
(* LoopSpec.  When the process has stopped, last.log holds the commands    *)
(* transmitted by its last step and send_buf the last command encoded.     *)

Deinit == SetProgrammerMode(FALSE)

NDeinit(log) == Cardinality({i \in DOMAIN log : log[i] = Deinit})

\* the last command handed to the transport was SetProgrammerMode(false),
\* and it was handed over once: transmitted last, or refused
TornDown ==
    /\ send_buf = append_to_vec(Deinit, <<>>).buf
    /\ \/ NDeinit(last.log) = 0
       \/ NDeinit(last.log) = 1 /\ last.log[Len(last.log)] = Deinit

\* C16 (as stated): however the process stops after connect (Exit taken,
\* an error or panic out of the loop, a failed animation, a second signal),
\* SetProgrammerMode(false) has been sent once, as the last command.
C16_TeardownOnEveryExit == pc \in {"exited", "failed", "killed"} => TornDown

\* a second signal ended the process in the loop: the last command sent is
\* a KeyOn of the last full_update, the device is still in programmer mode
C16_WitnessKilled ==
    /\ pc = "killed"
    /\ last.op = "tick"
    /\ send_buf # append_to_vec(Deinit, <<>>).buf

\* C16, for the paths on which main returns or unwinds: Exit taken, an
\* error or a panic out of an iteration, a failed animation.  When the
\* transport refuses the command the process still ends as it would have.
C16_TeardownOnReturn ==
    /\ pc \in {"exited", "failed"} => TornDown
    /\ pc = "exited" => last.status = "Ok"

\* the transport failed in the shutdown animation and refused the teardown
C16_WitnessRefused ==
    /\ pc = "failed"
    /\ last.op = "shutdown"
    /\ last.status = "Err"
    /\ NDeinit(last.log) = 0
    /\ send_buf = append_to_vec(Deinit, <<>>).buf

---------------------------------------------------------------------------
(* Properties of full_update, checked under Spec: lib.rs 367-390.  In a    *)
(* step of FullUpdate, last'.arg is the desired map, current the colours   *)
(* tracked before the call and last'.log the commands it transmitted.      *)

IsFullUpdate == last'.op = "full_update" /\ last'.n = last.n + 1

\* the keys of the scan whose desired colour differs from the tracked one
ChangedSimple ==
    SelectSeq(playable_keys,
              LAMBDA k : last'.arg[k].cls = "Simple" /\ last'.arg[k] # current[k])
ChangedComplex ==
    SelectSeq(playable_keys,
              LAMBDA k : last'.arg[k].cls = "Complex" /\ last'.arg[k] # current[k])

\* C17 (as stated): a full_update in which a transmission fails still scans
\* every playable key (each is then tracked at its desired colour) and, if
\* some complex key changed, the last command it hands to the transport is
\* the SetColors batch.
C17_FailureDoesNotAbort ==
    [][(IsFullUpdate /\ last'.status = "Err")
       => /\ \A key \in Playable : current'[key] = last'.arg[key]
          /\ ChangedComplex # <<>> => IsSetColorsWire(send_buf')]_vars

\* the KeyOn for key 11 failed: the call returned there, key 99 was never
\* looked at and the last bytes encoded are that KeyOn
C17_WitnessAborted ==
    /\ last.op = "full_update"
    /\ last.status = "Err"
    /\ send_buf = <<146, 11, 9>>
    /\ current[11] = Simple(Pulsing(9))
    /\ last.arg[99] = Complex(Rgb(1, 2, 3))
    /\ current[99] # last.arg[99]
    /\ complex_color_buf = <<>>

---------------------------------------------------------------------------
(* The event loop on the settings tab: the same loop, the device reporting *)
(* the keys of the tab strip, the slider and the exit button, and its      *)
(* brightness when asked for it.                                           *)

SettingsKeys == {KeyDown(98), KeyDown(18)} \cup {KeyDown(31 + i) : i \in 0..7}

slider_id == <<"led_slider", 0, 0>>
tabs_id == <<"tabs", 95, 1032>>

\* the brightness the device reports: the one last set in the iteration, or
\* the one it had
reported(log, b) ==
    LET sets == SelectSeq(log, LAMBDA c : c.op = "SetBrightness")
    IN  IF sets = <<>> THEN b ELSE sets[Len(sets)].brightness

\* the device answers GetBrightness: the callback sends Event::Brightness
BrightnessReply(b) ==
    /\ pc = "loop"
    /\ last.op = "tick"
    /\ \E i \in DOMAIN last.log : last.log[i] = GetBrightness
    /\ \A i \in DOMAIN queue : queue[i].type # "Brightness"
    /\ Lookup(wstate.data, slider_id, None) # Some(reported(last.log, b))
    /\ queue' = Append(queue, Brightness(reported(last.log, b)))
    /\ UNCHANGED <<sessionVars, pc, event, fb, wstate, obs>>

SettingsNext ==
    \/ \E l \in Links : StartUp(l)
    \/ \E e \in SettingsKeys : Midi(e)
    \/ \E b \in {64} : BrightnessReply(b)
    \/ \E f \in TickFaults : \E i3 \in I3States : Tick(f.link, f.extok, i3)
    \/ \E l \in Links : ExitLoop(l)

SettingsSpec == LoopInit /\ [][SettingsNext]_vars

\* the brightness commands among those an iteration transmitted
BrightnessCommands(log) ==
    SelectSeq(log, LAMBDA c : c.op \in {"SetBrightness", "GetBrightness"})

NOVATION_LEVELS == <<0, 18, 36, 54, 72, 91, 109, 127>>

\* C18: position i of the slider, i in 0..7, stands for the device value
\* 0, 18, 36, 54, 72, 91, 109, 127; with the settings tab shown, an
\* iteration for KeyDown at 31 + i transmits SetBrightness of that value
\* and then GetBrightness (after the GetBrightness the slider sends while
\* it knows no brightness), and an iteration for any other event transmits
\* no SetBrightness.  (An iteration does not lengthen the channel; the
\* device's reply does.)
C18_SliderLevels ==
    [][(/\ IsTick
        /\ Len(queue') <= Len(queue)
        /\ last'.status = "Ok"
        /\ Lookup(wstate.data, awake_id, TRUE)
        /\ Lookup(wstate.data, tabs_id, 0) = 3)
       => LET asked == IF Lookup(wstate.data, slider_id, None) = None
                          /\ Head(queue).type # "Brightness"
                       THEN <<GetBrightness>> ELSE <<>>
          IN  /\ \A i \in 0..7 :
                    Head(queue) = KeyDown(31 + i)
                    => BrightnessCommands(last'.log) =
                          asked \o <<SetBrightness(NOVATION_LEVELS[i + 1]), GetBrightness>>
              /\ (\A i \in 0..7 : Head(queue) # KeyDown(31 + i))
                    => BrightnessCommands(last'.log) = asked]_vars

\* the slider knew the brightness 64 and position 5 was pressed
C18_Witness ==
    /\ last.op = "tick"
    /\ last.arg = KeyDown(36)
    /\ last.status = "Ok"
    /\ BrightnessCommands(last.log) = <<SetBrightness(91), GetBrightness>>

\* position 3 was pressed while the slider knew no brightness
C18_WitnessUnknown ==
    /\ last.op = "tick"
    /\ last.arg = KeyDown(34)
    /\ last.status = "Ok"
    /\ BrightnessCommands(last.log) = <<GetBrightness, SetBrightness(54), GetBrightness>>


---------------------------------------------------------------------------
(* The commands of one full_update (C19, C20), checked under Spec:         *)
(* lib.rs 367-390.  A command is issued when it is handed to the           *)
(* transport: the transmitted ones are last'.log, a refused one is the     *)
(* content of send_buf when the call returned Err.                         *)

\* the KeyOn commands of the simple keys of keys, in their order
KeyOns(keys, new) ==
    [i \in 1..Len(keys) |-> KeyOn(keys[i], Uncolor(new[keys[i]]))]

\* the entries pushed to complex_color_buf for the complex keys of keys
Entries(keys, new) ==
    [i \in 1..Len(keys) |-> <<keys[i], Uncolor(new[keys[i]])>>]

\* the SetColors command of those entries, none if there are none
Batch(keys, new) ==
    IF keys = <<>> THEN <<>> ELSE <<SetColors(Entries(keys, new))>>

\* what a full_update step is to issue: a KeyOn per changed simple key in
\* raster order, then one SetColors if a complex key changed
Expected == KeyOns(ChangedSimple, last'.arg) \o Batch(ChangedComplex, last'.arg)

IsPrefix(p, s) ==
    /\ Len(p) <= Len(s)
    /\ \A i \in 1..Len(p) : p[i] = s[i]

\* C19 (as stated): a full_update issues exactly one KeyOn per playable key
\* whose desired colour is Simple and differs from the tracked colour, in
\* raster order and all before the SetColors command, and nothing for an
\* unchanged key: the commands it issues are (#changed Simple keys) + (1 if
\* a Complex key changed), whether or not a transmission is refused.
C19_RasterKeyOnsIssued ==
    [][IsFullUpdate
       => /\ IsPrefix(last'.log, Expected)
          /\ last'.status = "Ok" => Len(last'.log) = Len(Expected)
          /\ last'.status = "Err"
                => /\ Len(last'.log) + 1 = Len(Expected)
                   /\ send_buf' =
                         append_to_vec(Expected[Len(Expected)], <<>>).buf]_vars

\* the KeyOn for key 12 was refused: the call returned there and the other
\* 79 changed keys got no command
C19_WitnessAborted ==
    /\ last.op = "full_update"
    /\ last.status = "Err"
    /\ last.arg = Uniform(Simple(Static(9)))
    /\ last.log = <<KeyOn(11, Static(9))>>
    /\ send_buf = append_to_vec(KeyOn(12, Static(9)), <<>>).buf
    /\ current[12] = Simple(Static(9))
    /\ current[13] = Off

\* C19, for the calls that return Ok: the commands transmitted are exactly
\* the KeyOns of the changed simple keys in raster order followed by the
\* SetColors of the changed complex keys, if any.
C19_RasterKeyOns ==
    [][(IsFullUpdate /\ last'.status = "Ok") => last'.log = Expected]_vars

\* two simple keys and no complex key changed: two KeyOns, row 1 first
C19_Witness ==
    /\ last.op = "full_update"
    /\ last.status = "Ok"
    /\ last.log = <<KeyOn(11, Static(5)), KeyOn(12, Static(9))>>

\* whatever the transport does, the commands transmitted are the first ones
\* of that sequence: the order is the raster order in every call
C19_TransmittedInOrder == [][IsFullUpdate => IsPrefix(last'.log, Expected)]_vars

\* the SetColors commands in log
SetColorsOf(log) == SelectSeq(log, LAMBDA c : c.op = "SetColors")

\* C20: a SetColors command issued by a full_update, transmitted or refused,
\* holds exactly the keys whose desired colour is Complex and differed from
\* the tracked colour in that call, once each in raster order; it holds no
\* entry of an earlier full_update, at most 81 entries and only playable
\* keys, and the call never ends in an encode contract violation.
C20_BatchExact ==
    [][IsFullUpdate
       => /\ last'.status # "Panic"
          /\ IsPrefix(SetColorsOf(last'.log), Batch(ChangedComplex, last'.arg))
          /\ (last'.status = "Err" /\ IsSetColorsWire(send_buf'))
                => /\ ChangedComplex # <<>>
                   /\ send_buf' =
                         append_to_vec(SetColors(Entries(ChangedComplex, last'.arg)),
                                       <<>>).buf
          /\ IsPrefix(complex_color_buf', Entries(ChangedComplex, last'.arg))
          /\ Len(ChangedComplex) <= 81
          /\ \A i \in 1..Len(ChangedComplex) : ChangedComplex[i] \in Playable]_vars

\* a full_update of 81 complex keys was refused at its SetColors and left 81
\* entries in complex_color_buf; the next one changed the complex keys 11 and
\* 99 only and its SetColors holds those two entries
C20_Witness ==
    /\ last.n = 2
    /\ last.op = "full_update"
    /\ last.status = "Ok"
    /\ ~last.clean
    /\ current[55] = Complex(Flashing2(9, 0))
    /\ device[55] = Off
    /\ Len(last.log) = 79
    /\ last.log[79] = SetColors(<<<<11, Static(5)>>, <<99, Rgb(1, 2, 3)>>>>)
    /\ complex_color_buf = <<<<11, Static(5)>>, <<99, Rgb(1, 2, 3)>>>>


---------------------------------------------------------------------------
(* What full_update and send leave in the tracked colours (C21, C23, C24), *)
(* checked under Spec: lib.rs 353-390.                                     *)

\* C21: after a full_update(desired) that returned Ok the tracked colour of
\* every playable key is desired[key], whatever was tracked before.
C21_TrackedIsDesired ==
    (last.op = "full_update" /\ last.status = "Ok")
        => \A key \in Playable : current[key] = last.arg[key]

\* the second operation of the session, over colours an earlier operation
\* left: a simple and a complex key changed and both are tracked as desired
C21_Witness ==
    /\ last.n = 2
    /\ last.op = "full_update"
    /\ last.status = "Ok"
    /\ Len(last.log) > 2
    /\ last.arg[11] = Simple(Pulsing(9))
    /\ current[11] = Simple(Pulsing(9))
    /\ current[99] = Complex(Rgb(1, 2, 3))
    /\ current[55] = Off


---------------------------------------------------------------------------
(* The display after a tick (C22), checked under LoopSpec: main.rs         *)
(* 1063-1073, 1474-1476, lib.rs 353-390.                                   *)

\* a tick has completed without error and the loop waits for the next event
TickDone == pc = "loop" /\ last.op = "tick" /\ last.status = "Ok"

\* C22 (as stated): at the end of every tick that completes without error,
\* a tick in which the alert animation ran included, the device shows for
\* every playable key the colour the frame buffer of that tick holds.
C22_DeviceShowsFrame ==
    TickDone => \A key \in Playable : device[key] = fb[key]


\* the tick of an I3 event found workspace 1 urgent and ran the alert
\* animation: it lit key 88 with KeyOn (tracked) and cleared it with KeyOff
\* (not tracked), so full_update found key 88 at its desired Static(9) and
\* sent nothing for it, and the device shows the key off
C22_WitnessAfterAlert ==
    /\ TickDone
    /\ \E i \in DOMAIN obs.evals : obs.evals[i].widget = "alert"
    /\ fb[88] = simple(9)
    /\ current[88] = simple(9)
    /\ device[88] = Off


\* a step of Send
IsSend == last'.op = "send" /\ last'.n = last.n + 1

\* the keys an entry of colors names
Named(colors) == {colors[i][1] : i \in DOMAIN colors}

\* C23, checked under CodecSpec: send changes the tracked colours only for
\* KeyOn (the key becomes Simple(colour)) and SetColors (each listed key
\* becomes Complex(colour), of its last entry if it is listed twice); the
\* tracked colour of a key the command does not name, and of every key when
\* the command is of another kind, is what it was.
C23_SendTracksKeyOnSetColors ==
    [][IsSend
       => /\ DOMAIN current' = DOMAIN current
          /\ \A key \in Playable :
                current'[key] # current[key]
                   => \/ last'.arg.op = "KeyOn" /\ last'.arg.key = key
                      \/ last'.arg.op = "SetColors" /\ key \in Named(last'.arg.colors)
          /\ (last'.status = "Ok" /\ last'.arg.op = "KeyOn")
                => current'[last'.arg.key] = Simple(last'.arg.color)
          /\ (last'.status = "Ok" /\ last'.arg.op = "SetColors")
                => \A key \in Named(last'.arg.colors) :
                      current'[key] =
                         Complex(last'.arg.colors[LastEntry(last'.arg.colors, key,
                                                   Len(last'.arg.colors))][2])]_vars

\* a SetColors of keys 99 and 11 sent after one of keys 99 and 12: both
\* listed keys are tracked complex, key 12 keeps what it had
C23_Witness ==
    /\ last.op = "send"
    /\ last.n = 1
    /\ last.status = "Ok"
    /\ last.arg = SetColors(<<<<99, Rgb(1, 2, 3)>>, <<11, Static(5)>>>>)
    /\ current[11] = Complex(Static(5))
    /\ current[99] = Complex(Rgb(1, 2, 3))
    /\ current[12] = Complex(Pulsing(7))
    /\ current[13] = Off

\* a command of another kind sent after KeyOn(11, ..): nothing changed
C23_WitnessOther ==
    /\ last.op = "send"
    /\ last.n = 1
    /\ last.status = "Ok"
    /\ last.arg = GetVersions
    /\ current = [connect_current EXCEPT ![11] = Simple(Static(5))]

\* a KeyOff sent after KeyOn(11, ..): key 11 is still tracked as lit
C23_WitnessKeyOff ==
    /\ last.op = "send"
    /\ last.n = 1
    /\ last.status = "Ok"
    /\ last.arg = KeyOff(11)
    /\ current[11] = Simple(Static(5))
    /\ device[11] = Off


\* key's command is among the commands log says were transmitted
Transmitted(log, key) ==
    \E i \in DOMAIN log :
        \/ log[i].op = "KeyOn" /\ log[i].key = key
        \/ log[i].op = "SetColors" /\ key \in Named(log[i].colors)

\* C24 (as stated), checked under Spec: when a transmission fails in send or
\* in full_update the call returns the error and the tracked colour of every
\* key whose command was not transmitted is what it was before the call.
C24_TrackedOnlyIfTransmitted ==
    [][((IsSend \/ IsFullUpdate) /\ last'.status = "Err")
       => \A key \in Playable :
             current'[key] # current[key] => Transmitted(last'.log, key)]_vars

\* the SetColors of a full_update of 81 complex keys was refused: nothing
\* was transmitted, the device shows what it did and all 81 keys are tracked
\* at their desired colour
C24_WitnessTrackedUnsent ==
    /\ last.op = "full_update"
    /\ last.n = 1
    /\ last.status = "Err"
    /\ last.log = <<>>
    /\ IsSetColorsWire(send_buf)
    /\ \A key \in Playable : /\ current[key] = Complex(Flashing2(9, 0))
                             /\ device[key] = Off

\* C24, for send: a send whose transmission fails returns the error and
\* leaves every tracked colour as it was.
C24_FailedSendKeepsTracked ==
    [][(IsSend /\ last'.status = "Err") => current' = current]_vars

\* a refused KeyOn
C24_WitnessSend ==
    /\ last.op = "send"
    /\ last.status = "Err"
    /\ last.arg = KeyOn(11, Static(5))
    /\ current[11] = Off


---------------------------------------------------------------------------
(* The steps of one tick (C25), checked under LoopSpec: main.rs 730-751,   *)
(* 1474-1476.                                                              *)

\* the keys of the frame buffer the widget call e wrote: the four keys of
\* the tab strip, the two of a counter, the one of a button or a light;
\* monostable, alert and the slider's own call write none
WrittenBy(e) ==
    CASE e.widget = "tabs" -> e.key..(e.key + 3)
      [] e.widget = "counter_buttons" -> {e.key, e.key + 1}
      [] e.widget \in {"monostable", "alert", "led_slider"} -> {}
      [] OTHER -> {e.key}

Written(evals) == UNION {WrittenBy(evals[i]) : i \in DOMAIN evals}

\* the transport accepted every transmission of the step, the teardown's
\* included if main returned
TransportHeld == last'.status = "Ok" \/ NDeinit(last'.log) = 1

\* C25 (as stated): every tick for an event other than Exit resets the frame
\* buffer, evaluates the widget tree and then reconciles the frame buffer
\* with one full_update: unless the transport refused a transmission, the
\* tick ends with every playable key tracked at its colour in the frame
\* buffer, every key no widget wrote at Static(0), and the frame buffer
\* defined on exactly the 81 playable keys.
C25_EveryTickReconciles ==
    [][(IsTick /\ TransportHeld)
       => /\ DOMAIN fb' = Playable
          /\ \A key \in Playable \ Written(obs'.evals) : fb'[key] = simple(0)
          /\ \A key \in Playable : current'[key] = fb'[key]]_vars

\* the external command of a widget failed (lsusb, pactl, i3): main returned
\* from inside the widget tree, the frame buffer it had drawn so far was
\* never reconciled and the teardown was sent
C25_WitnessNoReconcile ==
    /\ pc = "failed"
    /\ last.op = "tick"
    /\ last.status = "Err"
    /\ last.log = <<Deinit>>
    /\ fb[19] = simple(47)
    /\ current[19] = Off

\* C25, for the ticks that complete: the frame buffer of the tick is defined
\* on exactly the 81 playable keys, every key no widget of the tick wrote is
\* Static(0) whatever the tick before had drawn there, and when the tick
\* ends every playable key is tracked at its colour in that frame buffer.
C25_TickOrder ==
    [][(IsTick /\ last'.status = "Ok")
       => /\ DOMAIN fb' = Playable
          /\ \A key \in Playable \ Written(obs'.evals) : fb'[key] = simple(0)
          /\ \A key \in Playable : current'[key] = fb'[key]]_vars

\* the frame buffer, once built, is defined on exactly the playable keys
C25_FrameDomain == fb # <<>> => DOMAIN fb = Playable

\* a tick found the display asleep: only the awake widget was evaluated and
\* the keys the tick before had drawn are dark again
C25_Witness ==
    /\ TickDone
    /\ Len(obs.evals) = 1
    /\ obs.evals[1].widget = "awake"
    /\ fb[95] = simple(0)
    /\ current[95] = simple(0)
    /\ last.log # <<>>


---------------------------------------------------------------------------
(* Leaving the loop (C26), checked under LoopSpec: main.rs 730-733,        *)
(* 1474-1481, lib.rs 393-402.                                              *)

\* the consumer takes an Exit from the head of the channel
IsExit ==
    /\ pc = "loop"
    /\ queue # <<>>
    /\ Head(queue) = Exit
    /\ pc' \in {"exited", "failed"}

\* the commands of one shutdown animation, in order
ShutdownCommands == Flatten(shutdown_steps)

\* C26: when the consumer dequeues Exit it evaluates no widget and does not
\* reconcile (the widget state, the frame buffer and the record of the last
\* tick stay as they were, and what is transmitted are commands of the
\* shutdown animation only); the shutdown animation runs once, and
\* SetProgrammerMode(false) is the last command handed to the transport,
\* transmitted only after the whole animation was; the events behind the Exit stay in the channel and no further
\* event is processed once main has returned.
C26_ExitSkipsTick ==
    [][/\ IsExit
          => /\ UNCHANGED <<fb, wstate, obs>>
             /\ queue' = Tail(queue)
             /\ last'.op = "shutdown"
             /\ IsPrefix(last'.log, ShutdownCommands \o <<Deinit>>)
             /\ last'.status = "Ok" => last'.log = ShutdownCommands \o <<Deinit>>
             /\ NDeinit(last'.log) = 1 => last'.log = ShutdownCommands \o <<Deinit>>
             /\ send_buf' = append_to_vec(Deinit, <<>>).buf
       /\ pc \in {"exited", "failed"}
          => UNCHANGED <<pc, event, queue, fb, wstate, obs, sessionVars>>]_vars

\* Exit was taken with an event queued behind it: main returned after the
\* shutdown animation and the teardown, the event is still in the channel
C26_Witness ==
    /\ pc = "exited"
    /\ event = Some(Exit)
    /\ queue = <<KeyDown(91)>>
    /\ last.op = "shutdown"
    /\ Len(last.log) = Len(ShutdownCommands) + 1
    /\ last.log[Len(last.log)] = Deinit
    /\ obs.evals # <<>>


---------------------------------------------------------------------------
(* alert for every focus (C27), checked under AlertSpec: main.rs 255-428   *)

Max2(a, b) == IF a >= b THEN a ELSE b

\* the focus cell of alert(.., focus)
FocusOf(focus) == IF IsSome(focus) THEN focus[1] ELSE DEFAULT_FOCUS

\* max(fx - 1, 9 - fx, fy - 1, 9 - fy) for the focus cell f
Reach(f) ==
    Max2(Max2(key_to_coords(f)[1] - 1, 9 - key_to_coords(f)[1]),
         Max2(key_to_coords(f)[2] - 1, 9 - key_to_coords(f)[2]))

\* the cells of the grid within r columns and r rows of f
Within(f, r) ==
    {k \in Playable : /\ Away(key_to_coords(k)[1], key_to_coords(f)[1]) <= r
                      /\ Away(key_to_coords(k)[2], key_to_coords(f)[2]) <= r}

\* the display with f pulsing, the other cells of lit at Static(9), the
\* rest off
Highlight(f, lit) ==
    [k \in Playable |-> IF k = f THEN Simple(Pulsing(9))
                        ELSE IF k \in lit THEN simple(9) ELSE Off]

\* the display alert is to show after its n-th step, for focus cell f with
\* reach N: cleared, N expansions, N contractions, the cleanup
AlertDisplay(focus, f, N, n) ==
    IF n <= N + 1 THEN Highlight(f, Within(f, n - 1))
    ELSE IF n <= 2 * N + 1 THEN Highlight(f, Within(f, 2 * N + 1 - n))
    ELSE IF IsSome(focus) THEN Highlight(f, {})
    ELSE Uniform(Off)

\* C27: for every focus cell alert takes max(fx-1, 9-fx, fy-1, 9-fy)
\* expansion steps, the r-th leaving lit the cells within r of the focus, so
\* that all 81 are lit after the last (the focus pulsing, the others
\* Static(9)); the contraction steps then leave the same lit sets in reverse
\* order; when alert returns every cell but the focus is off, and the focus
\* is pulsing if a focus was given and off if none was.
C27_AlertAnyFocus ==
    [][(/\ last.op = "alert"
        /\ last'.n = last.n + 1
        /\ last'.status = "Ok")
       => /\ Len(alert_steps(last.arg)) = 2 * Reach(FocusOf(last.arg)) + 2
          /\ device' = AlertDisplay(last.arg, FocusOf(last.arg),
                                    Reach(FocusOf(last.arg)), last'.n)
          /\ last'.n = Reach(FocusOf(last.arg)) + 1
                => \A k \in Playable : device'[k] # Off]_vars

\* focus 81, at the left edge: the first of its 8 contraction steps has
\* darkened column 9 and nothing else
C27_Witness ==
    /\ last.op = "alert"
    /\ last.arg = Some(81)
    /\ last.status = "Ok"
    /\ last.n = 10
    /\ device[81] = Simple(Pulsing(9))
    /\ device[99] = Off
    /\ device[19] = Off
    /\ device[98] = simple(9)
    /\ device[11] = simple(9)

\* no focus given: alert has returned and key 55 is off
C27_WitnessDefault ==
    /\ last.op = "alert"
    /\ last.arg = None
    /\ last.status = "Ok"
    /\ last.n = 10
    /\ device = Uniform(Off)


---------------------------------------------------------------------------
(* The startup and shutdown animations step by step (C28, C29): main.rs    *)
(* 142-251.  A step is what the animation sends between two sleeps;        *)
(* last.n counts the steps done.                                           *)

\* the sessions an animation starts on: the one connect returns, and one
\* with every key lit
AnimationStarts ==
    {[current |-> connect_current, send_buf |-> ConnectSession.send_buf],
     [current |-> Uniform(simple(5)),
      send_buf |-> append_to_vec(KeyOn(99, Static(5)), <<>>).buf]}

AnimationInit ==
    /\ \E s \in AnimationStarts, op \in {"startup", "shutdown"} :
          /\ current = s.current
          /\ device = s.current
          /\ send_buf = s.send_buf
          /\ last = [op |-> op, arg |-> None, status |-> "Ok", log |-> <<>>,
                     n |-> 0, clean |-> TRUE]
    /\ complex_color_buf = <<>>
    /\ repeated = FALSE
    /\ LoopIdle

\* one pass of startup's loop, over a transport that accepts `link` more
\* transmissions
StartupStep(link) ==
    /\ last.op = "startup"
    /\ last.status = "Ok"
    /\ last.n < Len(startup_steps)
    /\ Done(send_all(Session(link), startup_steps[last.n + 1], 1,
                     Len(startup_steps[last.n + 1])),
            "startup", None)
    /\ repeated' = FALSE
    /\ UNCHANGED loopVars

\* the clearing of the display, then one pass of shutdown's loop
ShutdownStep(link) ==
    /\ last.op = "shutdown"
    /\ last.status = "Ok"
    /\ last.n < Len(shutdown_steps)
    /\ Done(send_all(Session(link), shutdown_steps[last.n + 1], 1,
                     Len(shutdown_steps[last.n + 1])),
            "shutdown", None)
    /\ repeated' = FALSE
    /\ UNCHANGED loopVars

AnimationNext ==
    \/ \E l \in Links : StartupStep(l)
    \/ \E l \in Links : ShutdownStep(l)

AnimationSpec == AnimationInit /\ [][AnimationNext]_vars

\* a step of an animation was done
IsStep(op) == last.op = op /\ last'.n = last.n + 1

\* every command of log is a KeyOn of a playable key
OnlyKeyOns(log) ==
    \A i \in DOMAIN log : log[i].op = "KeyOn" /\ log[i].key \in Playable

\* the anti-diagonal of key k, counted from the top right corner: 1 for key
\* 99, 17 for key 11
Diagonal(k) == 19 - (key_to_coords(k)[1] + key_to_coords(k)[2])

\* C28: startup ends after 28 passes over a queue of 27 items; it sends
\* only KeyOn commands of playable keys; the n-th pass, n = 1..17, draws
\* the n-th anti-diagonal for the first time (in the last stripe colour)
\* and moves every stripe one anti-diagonal on, and no pass touches an
\* anti-diagonal beyond the n-th; after the last pass every cell is off on
\* the device and tracked as Static(0).
C28_StartupSweep ==
    [][IsStep("startup")
       => /\ Len(startup_it) = 27
          /\ Len(startup_steps) = 28
          /\ last'.n <= 28
          /\ last'.status # "Panic"
          /\ OnlyKeyOns(last'.log)
          /\ last'.status = "Ok"
                => /\ \A k \in Playable :
                         device'[k] =
                            IF Diagonal(k) > last'.n THEN device[k]
                            ELSE IF last'.n - Diagonal(k) <= 10
                            THEN simple(STARTUP_STRIPES[11 - (last'.n - Diagonal(k))])
                            ELSE Off
                   /\ \A k \in Playable : Diagonal(k) <= last'.n => current'[k] = device'[k]
                   /\ last'.n = 28 => device' = Uniform(Off) /\ current' = Uniform(Off)]_vars

\* the ninth pass on a lit display: the longest anti-diagonal is drawn for
\* the first time, key 89 of the second is seven stripes on, key 11 not
\* reached
C28_Witness ==
    /\ last.op = "startup"
    /\ last.status = "Ok"
    /\ last.n = 9
    /\ device[19] = simple(TRANS_BLUE)
    /\ device[91] = simple(TRANS_BLUE)
    /\ device[89] = simple(TRANS_PINK)
    /\ device[99] = simple(TRANS_BLUE)
    /\ device[11] = simple(5)

\* startup has returned on a display that was lit: all dark
C28_WitnessDone ==
    /\ last.op = "startup"
    /\ last.status = "Ok"
    /\ last.n = 28
    /\ device = Uniform(Off)
    /\ current = Uniform(Off)
    /\ send_buf = append_to_vec(KeyOn(11, Static(0)), <<>>).buf


\* the quarter turn (x, y) -> (10 - y, x) of the cell of key k
Turn(k) == coords_to_key(10 - key_to_coords(k)[2], key_to_coords(k)[1])

\* a cell and its three successive quarter turns
Orbit(k) == {k, Turn(k), Turn(Turn(k)), Turn(Turn(Turn(k)))}

\* the cells the seeds of shutdown name: the first n of the anti-diagonal
\* that starts at the seed's key
SeedCells ==
    UNION {Range(Take(up_left_from(SHUTDOWN_SEEDS[i][2]), SHUTDOWN_SEEDS[i][1])) :
             i \in DOMAIN SHUTDOWN_SEEDS}

\* the commands log[i..i+3] light one cell of a seed and its three
\* successive quarter turns in one colour
LightsOrbit(log, i) ==
    /\ i + 3 <= Len(log)
    /\ log[i].key \in SeedCells
    /\ log[i + 1].key = Turn(log[i].key)
    /\ log[i + 2].key = Turn(log[i + 1].key)
    /\ log[i + 3].key = Turn(log[i + 2].key)
    /\ \A j \in 1..3 : log[i + j].color = log[i].color

\* C29: shutdown first turns all 81 cells off; each later step sends only
\* KeyOn commands of playable keys (no step ends in a contract violation),
\* four at a time: a cell of a seed, then its three successive quarter
\* turns (x, y) -> (10 - y, x), in one colour; after every step the display
\* is unchanged by a quarter turn; there are 16 steps, and after the last
\* every cell of the device is off.
C29_ShutdownOrbits ==
    [][IsStep("shutdown")
       => /\ Len(shutdown_steps) = 16
          /\ last'.n <= 16
          /\ last'.status # "Panic"
          /\ UNION {Orbit(c) : c \in SeedCells} = Playable
          /\ (last'.n = 1 /\ last'.status = "Ok")
                => /\ Len(last'.log) = 81
                   /\ device' = Uniform(Off)
          /\ last'.n > 1 => OnlyKeyOns(last'.log)
          /\ (last'.n > 1 /\ last'.status = "Ok")
                => /\ Len(last'.log) % 4 = 0
                   /\ \A i \in DOMAIN last'.log : i % 4 = 1 => LightsOrbit(last'.log, i)
                   /\ \A k \in Playable : device'[Turn(k)] = device'[k]
          /\ (last'.n = 16 /\ last'.status = "Ok") => device' = Uniform(Off)]_vars

\* the fifth pass of the loop: the corner orbit is four stripes on, the
\* orbit of key 59 is lit for the first time, the centre is dark
C29_Witness ==
    /\ last.op = "shutdown"
    /\ last.status = "Ok"
    /\ last.n = 6
    /\ device[59] = simple(TRANS_BLUE)
    /\ device[51] = simple(TRANS_BLUE)
    /\ device[95] = simple(TRANS_BLUE)
    /\ device[15] = simple(TRANS_BLUE)
    /\ device[99] = simple(TRANS_BLUE)
    /\ device[89] = simple(TRANS_PINK)
    /\ device[55] = Off

\* shutdown has returned on a display that was lit: all dark
C29_WitnessDone ==
    /\ last.op = "shutdown"
    /\ last.status = "Ok"
    /\ last.n = 16
    /\ device = Uniform(Off)
    /\ send_buf = append_to_vec(KeyOn(55, Static(0)), <<>>).buf


---------------------------------------------------------------------------
(* The tab strip (C30): Ui::tabs, main.rs 759-780, called as               *)
(* ui.tabs::<4>(95) at main.rs 1032.  The event loop with the device       *)
(* reporting the keys of the strip and the awake button.                   *)

TabKeys ==
    {KeyDown(95), KeyDown(96), KeyDown(97), KeyDown(98), KeyUp(96), KeyDown(19)}

TabsNext ==
    \/ \E l \in Links : StartUp(l)
    \/ \E e \in TabKeys : Midi(e)
    \/ \E f \in TickFaults : \E i3 \in I3States : Tick(f.link, f.extok, i3)

TabsSpec == LoopInit /\ [][TabsNext]_vars

\* the selected index the strip keeps in data
selected(data) == Lookup(data, tabs_id, 0)

\* the calls of tabs in the record of a tick
TabsCalls(evals) == {i \in DOMAIN evals : evals[i].widget = "tabs"}

\* the call e of tabs over the keys 95..98: what it found, saw, returned,
\* kept in data and drew into frame
TabsCall(e, before, after, frame) ==
    /\ e.key = 95
    /\ e.was = selected(before)
    /\ e.ret = IF e.event.type = "KeyDown" /\ e.event.key \in 95..98
               THEN e.event.key - 95 ELSE e.was
    /\ e.ret \in 0..3
    /\ selected(after) = e.ret
    /\ \A k \in 95..98 : frame[k] = IF k - 95 = e.ret THEN simple(20) ELSE simple(1)
    /\ Cardinality({k \in 95..98 : frame[k] = simple(20)}) = 1

\* C30: the selected index of the tab strip over keys 95..98 is always in
\* 0..3 and is 0 at first; a call of tabs that sees a KeyDown of a key of
\* the strip sets it to key - 95, a call that sees any other event leaves
\* it as it was, and a tick that does not call tabs leaves it too; every
\* call draws the selected key in the active colour Static(20) and the
\* other three in the inactive colour Static(1), and returns the selected
\* index whatever the event.
C30_TabStrip ==
    [][/\ selected(wstate.data) \in 0..3
       /\ pc = "start" => selected(wstate.data) = 0
       /\ IsTick
          => /\ Cardinality(TabsCalls(obs'.evals)) <= 1
             /\ \A i \in TabsCalls(obs'.evals) :
                   TabsCall(obs'.evals[i], wstate.data, wstate'.data, fb')
             /\ TabsCalls(obs'.evals) = {}
                   => selected(wstate'.data) = selected(wstate.data)
       /\ ~IsTick => selected(wstate'.data) = selected(wstate.data)]_vars

\* tab 2 was selected, then key 96 pressed: the strip shows and returns 1
C30_Witness ==
    /\ TickDone
    /\ last.arg = KeyDown(96)
    /\ \E i \in TabsCalls(obs.evals) :
          obs.evals[i].was = 2 /\ obs.evals[i].ret = 1
    /\ selected(wstate.data) = 1
    /\ fb[96] = simple(20)
    /\ fb[97] = simple(1)

\* tab 3 was selected and key 96 released: the strip stays at 3
C30_WitnessOther ==
    /\ TickDone
    /\ last.arg = KeyUp(96)
    /\ \E i \in TabsCalls(obs.evals) :
          obs.evals[i].was = 3 /\ obs.evals[i].ret = 3
    /\ fb[98] = simple(20)

\* asleep, key 96 woke the display: tabs saw a Redraw and stayed at 0
C30_WitnessWoken ==
    /\ TickDone
    /\ last.arg = KeyDown(96)
    /\ \E i \in TabsCalls(obs.evals) :
          obs.evals[i].event = Redraw /\ obs.evals[i].ret = 0
    /\ selected(wstate.data) = 0

---------------------------------------------------------------------------
(* The palette tab, main.rs 1392-1402: the page counter at keys 93 and 94  *)
(* and the 64 info buttons of the page.  The loop with the keys of the     *)
(* tab pressed, three presses deep so that the counter can go round.       *)

MaxPresses == 3

PaletteKeys == {KeyDown(96), KeyDown(93), KeyDown(94), KeyUp(94), KeyDown(11)}

\* the MIDI callback for the keys of the palette tab
Press(e) ==
    /\ pc \in {"start", "loop"}
    /\ wstate.produced < MaxPresses
    /\ Produce(e)

PaletteNext ==
    \/ \E l \in Links : StartUp(l)
    \/ \E e \in PaletteKeys : Press(e)
    \/ \E f \in TickFaults : \E i3 \in I3States : Tick(f.link, f.extok, i3)

PaletteSpec == LoopInit /\ [][PaletteNext]_vars

counter_id == <<"counter_buttons", 93, 1393>>

\* the page the counter keeps in data
page(data) == Lookup(data, counter_id, 0)

CounterCalls(evals) == {i \in DOMAIN evals : evals[i].widget = "counter_buttons"}
InfoCalls(evals) == {i \in DOMAIN evals : evals[i].widget = "info_button"}

\* the call e of the counter with bound MAX at keys 93 and 94: what it
\* found, saw, returned and kept in data
CounterCall(e, MAX, before, after) ==
    /\ e.key = 93
    /\ e.was = page(before)
    /\ e.ret = IF e.event = KeyDown(93)
               THEN IF e.was = 0 THEN MAX - 1 ELSE e.was - 1
               ELSE IF e.event = KeyDown(94)
               THEN IF e.was = MAX - 1 THEN 0 ELSE e.was + 1
               ELSE e.was
    /\ e.ret \in 0..(MAX - 1)
    /\ page(after) = e.ret

\* the position of key among the keys of the page, from 0
Index(key) == CHOOSE i \in 0..63 : keypad_keys[i + 1] = key

\* C31: the page counter of the palette tab (bound 2) is always 0 or 1 and
\* is 0 at first; a call that sees a KeyDown at key 93 decrements it (0
\* wraps to 1), a call that sees a KeyDown at key 94 increments it (1 wraps
\* to 0), a call that sees any other event, and a tick that does not call
\* the counter, leave it; every info button the tick draws has the colour
\* index page * 64 + i for its position i in 0..63, which is at most 127.
C31_CounterWraps ==
    [][/\ page(wstate.data) \in 0..1
       /\ pc = "start" => page(wstate.data) = 0
       /\ IsTick
          => /\ Cardinality(CounterCalls(obs'.evals)) <= 1
             /\ \A i \in CounterCalls(obs'.evals) :
                   CounterCall(obs'.evals[i], 2, wstate.data, wstate'.data)
             /\ CounterCalls(obs'.evals) = {}
                   => page(wstate'.data) = page(wstate.data)
             /\ \A i \in InfoCalls(obs'.evals) :
                   LET key == obs'.evals[i].key
                       index == page(wstate'.data) * 64 + Index(key)
                   IN  /\ key \in Range(keypad_keys)
                       /\ index <= 127
                       /\ fb'[key] = simple(index)
       /\ ~IsTick => page(wstate'.data) = page(wstate.data)]_vars

\* page 1, then key 94 pressed: the counter wraps to 0, the first key of
\* the page shows colour 0 and the last colour 63
C31_Witness ==
    /\ pc = "loop" /\ last.op = "tick" /\ last.status = "Ok"
    /\ last.arg = KeyDown(94)
    /\ \E i \in CounterCalls(obs.evals) :
          obs.evals[i].was = 1 /\ obs.evals[i].ret = 0
    /\ page(wstate.data) = 0
    /\ fb[11] = simple(0)
    /\ fb[88] = simple(63)
    /\ fb[94] = simple(2)

\* page 0, then key 93 pressed: the counter wraps to 1, the last key of the
\* page shows colour 127
C31_WitnessDown ==
    /\ pc = "loop" /\ last.op = "tick" /\ last.status = "Ok"
    /\ last.arg = KeyDown(93)
    /\ \E i \in CounterCalls(obs.evals) :
          obs.evals[i].was = 0 /\ obs.evals[i].ret = 1
    /\ page(wstate.data) = 1
    /\ fb[11] = simple(64)
    /\ fb[88] = simple(127)
    /\ fb[93] = simple(2)

---------------------------------------------------------------------------
(* The shift button of the i3 tab, main.rs 1042: a holdable button at key  *)
(* 53 inside the sleep gate and the tab strip.  The loop with key 53       *)
(* pressed and released, the tab switched and the gate toggled, four       *)
(* events deep: press, leave, release, come back.                          *)

MaxHolds == 4

HoldKeys == {KeyDown(53), KeyUp(53), KeyDown(96), KeyDown(95), KeyDown(19)}

\* the MIDI callback for the keys around the shift button
Hold(e) ==
    /\ pc \in {"start", "loop"}
    /\ wstate.produced < MaxHolds
    /\ Produce(e)

HoldNext ==
    \/ \E l \in Links : StartUp(l)
    \/ \E e \in HoldKeys : Hold(e)
    \/ \E f \in TickFaults : \E i3 \in I3States : Tick(f.link, f.extok, i3)

HoldSpec == LoopInit /\ [][HoldNext]_vars

HoldableCalls(evals) == {i \in DOMAIN evals : evals[i].widget = "holdable_button"}

\* C32 (as stated): whenever a holdable button returns true, the latest
\* KeyDown or KeyUp of its key that the loop has processed is a KeyDown.
C32_HeldMeansDown ==
    \A i \in HoldableCalls(obs.evals) :
       obs.evals[i].ret => obs.evals[i].key \in wstate.down

\* key 53 pressed on the i3 tab, the palette tab selected, key 53 released,
\* the i3 tab selected again: the shift button reports held
C32_WitnessStuck ==
    /\ TickDone
    /\ last.arg = KeyDown(95)
    /\ 53 \notin wstate.down
    /\ \E i \in HoldableCalls(obs.evals) :
          /\ obs.evals[i].key = 53
          /\ obs.evals[i].event = KeyDown(95)
          /\ obs.evals[i].was
          /\ obs.evals[i].ret
    /\ fb[53] = simple(3)

\* key 53 pressed, the gate put to sleep, key 53 released, the gate woken:
\* the shift button reports held
C32_WitnessSlept ==
    /\ TickDone
    /\ last.arg = KeyDown(19)
    /\ 53 \notin wstate.down
    /\ \E i \in HoldableCalls(obs.evals) :
          /\ obs.evals[i].key = 53
          /\ obs.evals[i].event = Redraw
          /\ obs.evals[i].ret

\* C32 (what the code keeps): a holdable button returns the level of the
\* key events it was itself evaluated with: true on the KeyDown of its key,
\* false on the KeyUp, what it returned last time on anything else
C32_HeldFollowsSeen ==
    [][IsTick
       => \A i \in HoldableCalls(obs'.evals) :
             LET e == obs'.evals[i]
                 id == <<"holdable_button", e.key, e.site>>
             IN  /\ e.was = Lookup(wstate.data, id, FALSE)
                 /\ e.ret = Pressed(e.event, e.key, e.was)
                 /\ wstate'.data[id] = e.ret]_vars

\* key 53 held and then released while the i3 tab is shown
C32_Witness ==
    /\ TickDone
    /\ last.arg = KeyUp(53)
    /\ \E i \in HoldableCalls(obs.evals) :
          obs.evals[i].key = 53 /\ obs.evals[i].was /\ ~obs.evals[i].ret
    /\ fb[53] = simple(2)

---------------------------------------------------------------------------
(* The sleep gate, main.rs 972-995 and 1031, with every kind of event      *)
(* arriving while it is asleep: key events of its own key and of others,   *)
(* the timer's Redraw, the device's brightness report, the notifications   *)
(* of i3 and playerctl.                                                    *)

SleepKeys == {KeyDown(19), KeyUp(19), KeyDown(98), KeyUp(53)}

SleepNext ==
    \/ \E l \in Links : StartUp(l)
    \/ \E e \in SleepKeys : Press(e)
    \/ \E b \in {64} : BrightnessReply(b)
    \/ I3Notify
    \/ \E p \in {TRUE} : MediaNotify(p)
    \/ Timer
    \/ \E f \in TickFaults : \E i3 \in I3States : Tick(f.link, f.extok, i3)

SleepSpec == LoopInit /\ [][SleepNext]_vars

asleep(data) == ~Lookup(data, awake_id, TRUE)

\* a step of Tick, told from the device's report joining the channel
IsGateTick ==
    /\ IsTick
    /\ ~(Len(queue') = Len(queue) + 1 /\ queue'[Len(queue')].type = "Brightness")

AwakeCalls(evals) == {i \in DOMAIN evals : evals[i].widget = "awake"}

\* C33: a tick that finds the gate asleep and takes an event other than a
\* KeyDown leaves it asleep, calls no widget but the gate, sends no event,
\* runs no command and leaves every playable key of the frame buffer at
\* Static(0); if the tick completes, that frame has been reconciled: every
\* key is tracked and shown as off.  A tick that finds the gate awake and
\* calls it puts it to sleep exactly on a KeyDown at key 19, and otherwise
\* draws key 19 in the gate's colour Static(47).
C33_AsleepStaysDark ==
    [][IsGateTick =>
        /\ (asleep(wstate.data) /\ Head(queue).type # "KeyDown")
              => /\ asleep(wstate'.data)
                 /\ \A i \in DOMAIN obs'.evals :
                       obs'.evals[i] = [widget |-> "awake", key |-> 19,
                                        event |-> Head(queue), was |-> FALSE,
                                        ret |-> FALSE]
                 /\ Len(obs'.evals) <= 1
                 /\ obs'.sent = <<>>
                 /\ obs'.ext = <<>>
                 /\ DOMAIN fb' = Playable
                 /\ Cardinality(DOMAIN fb') = 81
                 /\ \A key \in Playable : fb'[key] = simple(0)
                 /\ last'.status = "Ok"
                       => /\ Len(obs'.evals) = 1
                          /\ current' = blank_fb
                          /\ device' = blank_fb
        /\ ~asleep(wstate.data)
              => \A i \in AwakeCalls(obs'.evals) :
                    /\ obs'.evals[i].was
                    /\ obs'.evals[i].ret = (Head(queue) # KeyDown(19))
                    /\ asleep(wstate'.data) = (Head(queue) = KeyDown(19))
                    /\ obs'.evals[i].ret => fb'[19] = simple(47)
                    /\ ~obs'.evals[i].ret => fb'[19] = simple(0)
      ]_vars

\* asleep, the device's brightness report arrives: still asleep and dark
C33_Witness ==
    /\ TickDone
    /\ last.arg = Brightness(64)
    /\ asleep(wstate.data)
    /\ Len(obs.evals) = 1
    /\ ~obs.evals[1].was
    /\ fb = blank_fb
    /\ device = blank_fb

\* asleep, key 19 is released
C33_WitnessKeyUp ==
    /\ TickDone
    /\ last.arg = KeyUp(19)
    /\ asleep(wstate.data)
    /\ Len(obs.evals) = 1
    /\ ~obs.evals[1].was
    /\ fb = blank_fb

\* asleep, i3 notifies and cannot be queried: the tick ends before the gate
C33_WitnessI3 ==
    /\ pc = "failed"
    /\ last.arg = I3
    /\ asleep(wstate.data)
    /\ obs.evals = <<>>
    /\ fb = blank_fb

\* awake on the settings tab, a key of another widget released
C33_WitnessAwake ==
    /\ TickDone
    /\ last.arg = KeyUp(53)
    /\ ~asleep(wstate.data)
    /\ obs.evals[1].ret
    /\ fb[19] = simple(47)
    /\ fb[98] = simple(20)

---------------------------------------------------------------------------
(* The info buttons of the palette tab, main.rs 836-852 and 1394-1401.     *)

ScrollTextsOf(log) == SelectSeq(log, LAMBDA c : c.op = "ScrollText")

\* what the info button at key shows when pressed on the page n
InfoText(n, key) ==
    ScrollText(Some(FALSE), Some(15), Some(Palette(3)),
               Some(to_string(n * 64 + Index(key))))

\* the info buttons of a tick that saw the KeyDown of their own key
PressedInfos(evals) == {i \in InfoCalls(evals) : evals[i].ret}

\* C34: every info button a tick calls draws its colour into the frame
\* buffer; it answers a KeyDown at its own key, and nothing else, with one
\* ScrollText that has loops, speed, colour and text (so that it encodes),
\* carries the colour index as text and is the only ScrollText of the
\* tick.  A tick in which no info button returned from such a KeyDown
\* transmits no ScrollText: no key of the page was pressed, or the
\* transmission of the text failed, the tick ended inside the button and
\* the tracked colours are as before.  Info buttons keep nothing in the
\* widgets' data, and a tick that completes tracks exactly its frame.
C34_InfoScrollsOnce ==
    [][IsTick =>
        /\ \A i \in InfoCalls(obs'.evals) :
              LET e == obs'.evals[i]
              IN  /\ e.ret = (e.event = KeyDown(e.key))
                  /\ fb'[e.key] = simple(page(wstate'.data) * 64 + Index(e.key))
        /\ Cardinality(PressedInfos(obs'.evals)) <= 1
        /\ \A i \in PressedInfos(obs'.evals) :
              LET command == InfoText(page(wstate'.data), obs'.evals[i].key)
              IN  /\ IsSome(command.loops) /\ IsSome(command.speed)
                  /\ IsSome(command.color) /\ IsSome(command.text)
                  /\ append_to_vec(command, <<>>).ok
                  /\ ScrollTextsOf(last'.log) = <<command>>
        /\ PressedInfos(obs'.evals) = {}
              => /\ ScrollTextsOf(last'.log) = <<>>
                 /\ \A i \in CounterCalls(obs'.evals) :
                       (/\ obs'.evals[i].event.type = "KeyDown"
                        /\ obs'.evals[i].event.key \in Range(keypad_keys))
                       => pc' = "failed" /\ current' = current
        /\ \A id \in DOMAIN wstate'.data : id[1] # "info_button"
        /\ last'.status = "Ok" => current' = fb'
      ]_vars

\* on page 1 the first key of the page is pressed: "64" scrolls by
C34_Witness ==
    /\ TickDone
    /\ last.arg = KeyDown(11)
    /\ page(wstate.data) = 1
    /\ ScrollTextsOf(last.log) =
          <<ScrollText(Some(FALSE), Some(15), Some(Palette(3)), Some(<<54, 52>>))>>
    /\ Cardinality(InfoCalls(obs.evals)) = 64
    /\ fb[11] = simple(64)
    /\ current[11] = simple(64)

\* the transmission of the text fails: the tick ends inside the first
\* info button
C34_WitnessFailed ==
    /\ pc = "failed"
    /\ last.arg = KeyDown(11)
    /\ CounterCalls(obs.evals) # {}
    /\ InfoCalls(obs.evals) = {}
    /\ ScrollTextsOf(last.log) = <<>>
    /\ fb[11] = simple(0)

\* the page is shown and no key of it is pressed
C34_WitnessQuiet ==
    /\ TickDone
    /\ last.arg = KeyUp(94)
    /\ Cardinality(InfoCalls(obs.evals)) = 64
    /\ ScrollTextsOf(last.log) = <<>>

---------------------------------------------------------------------------
(* Message::from against Command::append_to_vec, lib.rs 160-297: the       *)
(* bytes of the Set commands decoded as the device's replies, and bytes    *)
(* the device can send decoded on their own.                               *)

\* the arms of the match in Message::from, one pattern each, in order
arms(m) ==
    << Len(m) = 3 /\ m[1] \in {144, 176} /\ m[3] = 127,
       Len(m) = 3 /\ m[1] \in {144, 176} /\ m[3] = 0,
       Len(m) = 17 /\ SubSeq(m, 1, 12) = VersionHead \o <<1, 0, 0>> /\ m[17] = 247,
       Len(m) = 17 /\ SubSeq(m, 1, 12) = VersionHead \o <<17, 0, 0>> /\ m[17] = 247,
       Len(m) = 9 /\ SubSeq(m, 1, 7) = SysEx \o <<0>> /\ m[9] = 247,
       Len(m) = 9 /\ SubSeq(m, 1, 7) = SysEx \o <<14>> /\ m[9] = 247,
       Len(m) = 9 /\ SubSeq(m, 1, 7) = SysEx \o <<9>> /\ m[9] = 247,
       Len(m) = 9 /\ SubSeq(m, 1, 7) = SysEx \o <<8>> /\ m[9] = 247,
       Len(m) = 10 /\ SubSeq(m, 1, 7) = SysEx \o <<10>> /\ m[10] = 247 >>

Layouts == {"Session", "Drums", "Keys", "User", "Programmer"}

\* the commands whose bytes have the layout of a reply
SetCommands ==
    {SetLayout(l) : l \in Layouts}
    \cup {SetProgrammerMode(b) : b \in BOOLEAN}
    \cup {SetAwake(b) : b \in BOOLEAN}
    \cup {SetBrightness(v) : v \in U8s}
    \cup {SetLedFeedback(i, e) : i \in BOOLEAN, e \in BOOLEAN}

\* bytes the device can send
DeviceBytes ==
    {<<s, note, v>> : s \in {128, 144, 176}, note \in {0, 19, 91, 127},
                      v \in {0, 1, 64, 126, 127}}
    \cup {SysEx \o <<t, v, 247>> : t \in {0, 8, 9, 14, 10, 99}, v \in {0, 1, 2, 127}}
    \cup {SysEx \o <<t, 247>> : t \in {0, 8, 9, 14, 10}}
    \cup InboundBytes

MirrorInit ==
    /\ current = connect_current
    /\ send_buf = <<>>
    /\ complex_color_buf = <<>>
    /\ device = connect_current
    /\ last = [op |-> "input", arg |-> None, ret |-> None, n |-> 0]
    /\ repeated = FALSE
    /\ LoopIdle

\* the bytes of command, encoded into the send buffer, decoded
Mirror(command) ==
    /\ last.n < MaxOps
    /\ send_buf' = append_to_vec(command, <<>>).buf
    /\ last' = [op |-> "mirror", arg |-> command, ret |-> decode(send_buf'),
                n |-> last.n + 1]
    /\ UNCHANGED <<current, complex_color_buf, device, repeated, loopVars>>

\* bytes decoded
Decode(bytes) ==
    /\ last.n < MaxOps
    /\ send_buf' = bytes
    /\ last' = [op |-> "decode", arg |-> None, ret |-> decode(bytes),
                n |-> last.n + 1]
    /\ UNCHANGED <<current, complex_color_buf, device, repeated, loopVars>>

MirrorNext ==
    \/ \E command \in SetCommands : Mirror(command)
    \/ \E bytes \in DeviceBytes : Decode(bytes)

MirrorSpec == MirrorInit /\ [][MirrorNext]_vars

\* the message that carries what command carries: a layout as its code
Mirrored(c) ==
    CASE c.op = "SetLayout" -> [msg |-> "Layout", layout |-> LayoutByte(c.layout)]
      [] c.op = "SetProgrammerMode" -> [msg |-> "ProgrammerMode", enabled |-> c.enabled]
      [] c.op = "SetAwake" -> [msg |-> "Awake", awake |-> c.awake]
      [] c.op = "SetBrightness" -> [msg |-> "Brightness", brightness |-> c.brightness]
      [] c.op = "SetLedFeedback" ->
            [msg |-> "LedFeedback", internal |-> c.internal, external |-> c.external]

Matching(m) == {i \in DOMAIN arms(m) : arms(m)[i]}

\* C35: the bytes of SetLayout, SetProgrammerMode, SetAwake, SetBrightness
\* and SetLedFeedback decode to the Layout, ProgrammerMode, Awake,
\* Brightness and LedFeedback message with the same value (for a layout,
\* its code 0, 4, 5, 6 or 127); three bytes with status 0x90 or 0xB0
\* decode to KeyDown(note) exactly when the velocity is 127 and to
\* KeyUp(note) exactly when it is 0; no bytes match two arms of the
\* decoder, and bytes decode exactly when they match one.
C35_DecodeMirrorsEncode ==
    last.op \in {"mirror", "decode"}
    => /\ last.op = "mirror" => last.ret = Some(Mirrored(last.arg))
       /\ (Len(send_buf) = 3 /\ send_buf[1] \in {144, 176})
             => /\ last.ret = Some([msg |-> "KeyDown", key |-> send_buf[2]])
                      <=> send_buf[3] = 127
                /\ last.ret = Some([msg |-> "KeyUp", key |-> send_buf[2]])
                      <=> send_buf[3] = 0
                /\ send_buf[3] \notin {0, 127} => last.ret = None
       /\ Cardinality(Matching(send_buf)) <= 1
       /\ IsSome(last.ret) <=> Matching(send_buf) # {}

\* SetBrightness(200) came back as Brightness(200)
C35_Witness ==
    /\ last.op = "mirror"
    /\ last.arg = SetBrightness(200)
    /\ send_buf = <<240, 0, 32, 41, 2, 13, 8, 200, 247>>
    /\ last.ret = Some([msg |-> "Brightness", brightness |-> 200])

\* SetLayout(Programmer) came back as Layout(0x7f)
C35_WitnessLayout ==
    /\ last.op = "mirror"
    /\ last.arg = SetLayout("Programmer")
    /\ last.ret = Some([msg |-> "Layout", layout |-> 127])

\* a Control Change for key 91 with velocity 127 is a KeyDown, with
\* velocity 64 nothing
C35_WitnessKey ==
    /\ last.op = "decode"
    /\ send_buf = <<176, 91, 127>>
    /\ last.ret = Some([msg |-> "KeyDown", key |-> 91])

C35_WitnessVelocity ==
    /\ last.op = "decode"
    /\ send_buf = <<144, 19, 64>>
    /\ last.ret = None

---------------------------------------------------------------------------
(* KeyOff against KeyOn(.., Static(0)), lib.rs 189-204 and 353-365,        *)
(* checked under Spec.                                                     *)

SentKeyOff == last.op = "send" /\ last.status = "Ok" /\ last.arg.op = "KeyOff"

\* C36 (as stated): KeyOff(k) is sent as the bytes of KeyOn(k, Static(0)),
\* and after it is sent the tracked colour of k is Simple(Static(0)), as
\* after that KeyOn.
C36_KeyOffIsKeyOnOff ==
    SentKeyOff
    => /\ send_buf = append_to_vec(KeyOn(last.arg.key, Static(0)), <<>>).buf
       /\ current[last.arg.key] = Simple(Static(0))

\* KeyOn(11, Static(5)), then KeyOff(11): the device shows key 11 off and
\* the session still tracks it as Static(5)
C36_WitnessStillTracked ==
    /\ SentKeyOff
    /\ last.n = 2
    /\ last.arg = KeyOff(11)
    /\ send_buf = <<144, 11, 0>>
    /\ device[11] = Simple(Static(0))
    /\ current[11] = Simple(Static(5))

\* C36 (what the code keeps): the bytes of KeyOff(k) are those of
\* KeyOn(k, Static(0)), 0x90 k 0x00, and the device shows k off
C36_SameBytes ==
    /\ SentKeyOff
          => /\ send_buf = <<144, last.arg.key, 0>>
             /\ send_buf = append_to_vec(KeyOn(last.arg.key, Static(0)), <<>>).buf
             /\ device[last.arg.key] = Simple(Static(0))
    /\ \A k \in Playable :
          append_to_vec(KeyOff(k), <<>>) = append_to_vec(KeyOn(k, Static(0)), <<>>)

C36_Witness ==
    /\ SentKeyOff
    /\ last.arg = KeyOff(99)
    /\ send_buf = <<144, 99, 0>>
    /\ device[99] = Simple(Static(0))

---------------------------------------------------------------------------
(* rect, lib.rs 49-66, on its own: every pair of keys up to MaxRectKey as  *)
(* the corners.                                                            *)

MaxRectKey == 99

\* assert!(x0 <= x1); assert!(y0 <= y1)
rect_asserts(a, b) ==
    /\ key_to_coords(a)[1] <= key_to_coords(b)[1]
    /\ key_to_coords(a)[2] <= key_to_coords(b)[2]

RectInit ==
    /\ current = connect_current
    /\ send_buf = <<>>
    /\ complex_color_buf = <<>>
    /\ device = connect_current
    /\ last = [op |-> "input", arg |-> None, status |-> "Ok", ret |-> <<>>, n |-> 0]
    /\ repeated = FALSE
    /\ LoopIdle

\* rect(a, b) run to the end of its iterator
Rect(a, b) ==
    /\ last.n = 0
    /\ last' = [op |-> "rect", arg |-> <<a, b>>,
                status |-> IF rect_asserts(a, b) THEN "Ok" ELSE "Panic",
                ret |-> IF rect_asserts(a, b) THEN rect(a, b) ELSE <<>>,
                n |-> 1]
    /\ UNCHANGED <<current, send_buf, complex_color_buf, device, repeated, loopVars>>

RectNext == \E a \in 0..MaxRectKey, b \in 0..MaxRectKey : Rect(a, b)

RectSpec == RectInit /\ [][RectNext]_vars

\* C37: for corners a and b with x(a) <= x(b) and y(a) <= y(b), rect(a, b)
\* ends and yields (x1-x0+1)*(y1-y0+1) keys: row by row from the low y,
\* within a row from the low x, every key of the rectangle and each once;
\* rect(11, 99) yields the 81 playable keys, none a multiple of 10, and
\* rect(11, 88) yields 64 keys.
C37_RectRowMajor ==
    /\ (last.op = "rect" /\ rect_asserts(last.arg[1], last.arg[2]))
          => LET x0 == last.arg[1] % 10
                 y0 == last.arg[1] \div 10
                 x1 == last.arg[2] % 10
                 y1 == last.arg[2] \div 10
                 w == x1 - x0 + 1
                 keys == last.ret
             IN  /\ last.status = "Ok"
                 /\ Len(keys) = w * (y1 - y0 + 1)
                 /\ \A i \in 1..Len(keys) :
                       keys[i] = 10 * (y0 + ((i - 1) \div w)) + x0 + ((i - 1) % w)
                 /\ \A i, j \in 1..Len(keys) : keys[i] = keys[j] => i = j
                 /\ Range(keys) = {k \in 0..255 : /\ k % 10 \in x0..x1
                                                  /\ k \div 10 \in y0..y1}
    /\ (last.op = "rect" /\ last.arg = <<11, 99>>)
          => /\ Len(last.ret) = 81
             /\ Range(last.ret) = Playable
             /\ \A i \in 1..81 : last.ret[i] % 10 # 0
    /\ (last.op = "rect" /\ last.arg = <<11, 88>>) => Len(last.ret) = 64

\* rect(11, 88): 64 keys, 11..18, then 21..28, up to 88
C37_Witness ==
    /\ last.op = "rect"
    /\ last.arg = <<11, 88>>
    /\ Len(last.ret) = 64
    /\ last.ret[1] = 11
    /\ last.ret[8] = 18
    /\ last.ret[9] = 21
    /\ last.ret[64] = 88

\* rect(11, 99): the 81 playable keys
C37_WitnessPlayable ==
    /\ last.op = "rect"
    /\ last.arg = <<11, 99>>
    /\ Len(last.ret) = 81
    /\ last.ret[10] = 21

\* rect(55, 55): one key
C37_WitnessOne ==
    /\ last.op = "rect"
    /\ last.arg = <<55, 55>>
    /\ last.ret = <<55>>

---------------------------------------------------------------------------
(* The loop with animations::alert taken one sleep at a time: main.rs      *)
(* 730-733, 1063-1073 and 255-428.  While pc = "alert" the iteration is     *)
(* inside alert: obs.evals holds the widget calls made before it, obs.n    *)
(* the steps of alert taken, obs.mark the events produced when the         *)
(* iteration took its event and obs.ui the Ui the iteration ends with.     *)
(* The producer threads send at any time.                                  *)

\* events the producer threads send
MaxBus == 3
BusEvents == {KeyDown(91), I3, Redraw}

\* the transport works or is down; the external commands work or fail
BusFaults ==
    {[link |-> NeverFails, extok |-> TRUE], [link |-> 0, extok |-> TRUE],
     [link |-> NeverFails, extok |-> FALSE]}

\* the calls of animations::alert that returned Ok
AlertReturns(evals) ==
    {i \in DOMAIN evals : evals[i].widget = "alert" /\ evals[i].ret}

\* what alert has done to a blank session after k of its steps
BusFocus == Some(workspace_key(1))
alert_upto ==
    [k \in 1..Len(alert_steps(BusFocus)) |->
        run_steps(Blank(NeverFails), SubSeq(alert_steps(BusFocus), 1, k), 1)]

\* tx.send(event) of a producer thread, wherever main is
Enqueue(e) ==
    /\ pc \in {"start", "loop", "alert"}
    /\ wstate.produced < MaxBus
    /\ Produce(e)

\* an iteration in which alert does not run, or fails at its first send
QuietTick(link, extok, i3) ==
    /\ Tick(link, extok, i3)
    /\ AlertReturns(obs'.evals) = {}

\* the iteration up to its call of alert
suspended(U, ev) ==
    /\ AlertReturns(U.evals) # {}
    /\ pc' = "alert"
    /\ queue' = Tail(queue)
    /\ event' = Some(ev)
    /\ obs' = [evals |-> SubSeq(U.evals, 1, (CHOOSE i \in AlertReturns(U.evals) : TRUE) - 1),
               ext |-> <<>>, sent |-> <<>>, n |-> 0, mark |-> wstate.produced,
               ui |-> U]
    /\ UNCHANGED <<sessionVars, fb, wstate>>

\* rx.iter() yields an event other than Exit and the widgets call alert
BeginAlert(link, extok, i3) ==
    /\ pc = "loop"
    /\ queue # <<>>
    /\ Head(queue) # Exit
    /\ Head(queue) = I3 \/ i3 = wstate.env.w_by_num
    /\ suspended(evaluated(new_ui(Head(queue),
                                  IF Head(queue) = I3
                                  THEN [wstate.env EXCEPT !.w_by_num = i3]
                                  ELSE wstate.env,
                                  link, extok)),
                 Head(queue))

\* the session after one more step of alert
animated(R) ==
    /\ current' = Overlay(current, R.current)
    /\ device' = Overlay(device, R.device)
    /\ send_buf' = R.send_buf
    /\ last' = [op |-> "alert", arg |-> BusFocus, status |-> "Ok", log |-> R.log,
                n |-> last.n, clean |-> last.clean]
    /\ repeated' = FALSE
    /\ UNCHANGED complex_color_buf

\* Animate that also takes an event off the channel
Animate_polling ==
    /\ pc = "alert"
    /\ obs.n < Len(alert_steps(BusFocus))
    /\ animated(alert_upto[obs.n + 1])
    /\ obs' = [obs EXCEPT !.n = @ + 1]
    /\ queue' = IF queue = <<>> THEN queue ELSE Tail(queue)
    /\ UNCHANGED <<pc, event, fb, wstate>>

\* alert sends up to its next sleep
Animate ==
    /\ pc = "alert"
    /\ obs.n < Len(alert_steps(BusFocus))
    /\ animated(alert_upto[obs.n + 1])
    /\ obs' = [obs EXCEPT !.n = @ + 1]
    /\ UNCHANGED <<pc, queue, event, fb, wstate>>

\* alert returns: tx.send(Event::Redraw), the rest of the widget tree,
\* full_update
Resume ==
    /\ pc = "alert"
    /\ obs.n = Len(alert_steps(BusFocus))
    /\ iterated(reconciled(obs.ui), event[1])
    /\ queue' = queue \o obs.ui.sent
    /\ fb' = obs.ui.fb
    /\ wstate' = [wstate EXCEPT !.data = obs.ui.data, !.env = obs.ui.env,
                                !.fired = Fired(wstate.fired, event[1], obs.ui.evals),
                                !.down = Down(wstate.down, event[1])]
    /\ obs' = [evals |-> obs.ui.evals, ext |-> obs.ui.ext, sent |-> obs.ui.sent]
    /\ UNCHANGED event

BusNext ==
    \/ \E l \in Links : StartUp(l)
    \/ \E e \in BusEvents : Enqueue(e)
    \/ \E f \in BusFaults : \E i3 \in I3States : QuietTick(f.link, f.extok, i3)
    \/ \E f \in BusFaults : \E i3 \in I3States : BeginAlert(f.link, f.extok, i3)
    \/ Animate
    \/ Resume

BusSpec == LoopInit /\ [][BusNext]_vars

\* C38: while alert runs inside an iteration no event is taken off the
\* channel and no widget is called: the event in hand and the widget calls
\* made stay as they are and the channel only grows at its tail.  When alert
\* has returned the iteration sends its Redraw behind the events sent during
\* the animation and calls the remaining widgets, and every event taken once
\* the startup animation is over is taken from the head of the channel, by an
\* iteration that is not inside alert.
C38_AnimationsAtomic ==
    [][/\ pc = "alert" /\ pc' = "alert"
          => /\ event' = event
             /\ obs'.evals = obs.evals
             /\ IsPrefix(queue, queue')
       /\ pc = "alert" /\ pc' # "alert"
          => /\ obs.n = Len(alert_steps(BusFocus))
             /\ event' = event
             /\ queue' = Append(queue, Redraw)
             /\ IsPrefix(obs.evals, obs'.evals)
             /\ obs'.evals[Len(obs.evals) + 1].widget = "alert"
       /\ \/ IsPrefix(queue, queue')
          \/ pc = "start"
          \/ /\ pc = "loop"
             /\ event' = Some(Head(queue))
             /\ IsPrefix(Tail(queue), queue')]_vars

\* alert has taken its last step and two events were sent meanwhile
C38_Witness ==
    /\ pc = "alert"
    /\ obs.n = Len(alert_steps(BusFocus))
    /\ event = Some(I3)
    /\ obs.mark = 1
    /\ wstate.produced = 3
    /\ queue = <<KeyDown(91), Redraw>>

\* the iteration that ran alert is over: its Redraw is behind the event sent
\* before it
C38_WitnessResumed ==
    /\ pc = "loop"
    /\ event = Some(I3)
    /\ AlertReturns(obs.evals) # {}
    /\ queue = <<KeyDown(91), Redraw>>

\* the event behind the one that led to alert is the next one taken
C38_WitnessNext ==
    /\ pc = "loop"
    /\ event = Some(KeyDown(91))
    /\ queue = <<Redraw>>
    /\ wstate.env.w_by_num = alarmed
    /\ wstate.produced = 2

---------------------------------------------------------------------------
(* configure_signals, main.rs 53-73, checked under LoopSpec.  The hooks of *)
(* a signal run in the order of their registration: the conditional        *)
(* shutdown first, which ends the process when the flag is set, then the   *)
(* hook that sets the flag.  The signal thread takes one signal from its   *)
(* iterator, sends Exit and returns.                                       *)

\* the Exit events on the channel
Exits(q) == Cardinality({i \in DOMAIN q : q[i] = Exit})

\* C39: the first termination signal does not end the process: it sets the
\* flag and has one Exit appended to the channel.  No Exit is put on the
\* channel once the flag is set, so the channel never holds two.  The process
\* is ended by force only by a signal that finds the flag set, without
\* another event sent or taken, and every signal that finds the flag set
\* while main runs ends it so.
C39_OneCleanAttempt ==
    [][/\ ~wstate.signalled /\ wstate'.signalled
          => /\ pc' = pc
             /\ queue' = Append(queue, Exit)
       /\ ~wstate.signalled => Exits(queue) = 0 /\ pc' # "killed"
       /\ wstate.signalled
          => /\ wstate'.signalled
             /\ Exits(queue') <= Exits(queue)
             /\ Exits(queue) <= 1
       /\ pc # "killed" /\ pc' = "killed"
          => /\ wstate.signalled
             /\ queue' = queue /\ event' = event /\ last' = last
       /\ wstate.signalled /\ pc \in {"start", "loop"} => ENABLED SecondSignal]_vars

\* a second signal arrived with the Exit of the first still on the channel
C39_Witness ==
    /\ pc = "killed"
    /\ wstate.signalled
    /\ Exits(queue) = 1

\* the first signal arrived and main goes on, the Exit behind another event
C39_WitnessFirst ==
    /\ pc = "loop"
    /\ wstate.signalled
    /\ queue = <<Redraw, Exit>>

\* a second signal arrived after the Exit of the first was discarded at the
\* end of the startup animation
C39_WitnessDrained ==
    /\ pc = "killed"
    /\ wstate.signalled
    /\ Exits(queue) = 0
    /\ event # Some(Exit)
    /\ queue # <<>>

---------------------------------------------------------------------------
(* The slider's display against the values it sends (C40), checked under   *)
(* SettingsSpec: main.rs 921-959.                                          *)

SliderCalls(evals) == {i \in DOMAIN evals : evals[i].widget = "led_slider"}

\* an iteration that ran to its end and called led_slider
SliderTick ==
    /\ IsGateTick
    /\ last'.status = "Ok"
    /\ SliderCalls(obs'.evals) # {}

\* the brightness led_slider works with in the iteration that starts:
\* that of the event, or the one it had
Level ==
    IF Head(queue).type = "Brightness" THEN Some(Head(queue).b)
    ELSE Lookup(wstate.data, slider_id, None)

\* the positions in P are drawn highlighted in frame f and the others are not
HighlightsOnly(f, P) ==
    \A j \in 0..7 : f[31 + j] = IF j \in P THEN simple(113) ELSE simple(104)

\* the GetBrightness commands among those transmitted
Queries(log) == Len(SelectSeq(log, LAMBDA c : c = GetBrightness))

\* the value sent for position i, reported back, highlights position i only
ReportHighlights ==
    SliderTick
    => /\ \A i \in 0..7 :
             Head(queue) = Brightness(slider_value(i)) => HighlightsOnly(fb', {i})
       /\ \A i \in 0..7 : slider_value(i) \div 16 = i
       /\ IsSome(Level) => HighlightsOnly(fb', {j \in 0..7 : Level[1] \div 16 = j})

\* C40 (as stated): the value the slider sends for position i, reported back
\* as a Brightness event, highlights position i and no other; while no
\* brightness has been reported no position is highlighted and one
\* GetBrightness is sent in each iteration that calls the slider.
C40_OneQueryPerTick ==
    [][/\ ReportHighlights
       /\ SliderTick /\ Level = None
          => /\ HighlightsOnly(fb', {})
             /\ Queries(last'.log) = 1]_vars

\* C40 (amended): the value the slider sends for position i, reported back
\* as a Brightness event, highlights position i and no other; while no
\* brightness has been reported no position is highlighted and each
\* iteration that calls the slider sends one GetBrightness before the
\* slider's buttons, and a second one, after SetBrightness, when the
\* iteration is for a KeyDown at a position of the slider.
C40_SliderConsistent ==
    [][/\ ReportHighlights
       /\ SliderTick /\ Level = None
          => /\ HighlightsOnly(fb', {})
             /\ BrightnessCommands(last'.log)[1] = GetBrightness
             /\ Queries(last'.log) =
                   IF \E i \in 0..7 : Head(queue) = KeyDown(31 + i) THEN 2 ELSE 1]_vars

\* the device reported the value set for position 5: position 5 alone is
\* highlighted
C40_Witness ==
    /\ pc = "loop"
    /\ last.status = "Ok"
    /\ event = Some(Brightness(slider_value(5)))
    /\ SliderCalls(obs.evals) # {}
    /\ HighlightsOnly(fb, {5})

\* the device reported the value set for position 0
C40_WitnessZero ==
    /\ pc = "loop"
    /\ last.status = "Ok"
    /\ event = Some(Brightness(0))
    /\ SliderCalls(obs.evals) # {}
    /\ HighlightsOnly(fb, {0})

\* no brightness reported yet: nothing highlighted, one GetBrightness sent
C40_WitnessUnknown ==
    /\ pc = "loop"
    /\ last.op = "tick"
    /\ last.status = "Ok"
    /\ Lookup(wstate.data, slider_id, None) = None
    /\ SliderCalls(obs.evals) # {}
    /\ HighlightsOnly(fb, {})
    /\ Queries(last.log) = 1

\* position 3 pressed with no brightness reported: two GetBrightness sent in
\* one iteration
C40_WitnessTwice ==
    /\ pc = "loop"
    /\ last.op = "tick"
    /\ last.arg = KeyDown(34)
    /\ last.status = "Ok"
    /\ Lookup(wstate.data, slider_id, None) = None
    /\ SliderCalls(obs.evals) # {}
    /\ Queries(last.log) = 2

====
